---- MODULE Spec2Model ----
(***************************************************************************)
(* Model of the Tauri back end of roi-mailchimp-reporter                   *)
(* (src/src-tauri/src/lib.rs): the settings store, the report store and    *)
(* the generate_report pipeline.                                           *)
(*                                                                         *)
(* Strings are TLA+ strings; JSON values are records tagged by a field t   *)
(* ("str", "num", "bool", "arr", "obj", "null", "missing"), so that a      *)
(* serialised document and the typed value it was made from are different  *)
(* things and a decode can fail or substitute defaults as serde does.      *)
(***************************************************************************)
EXTENDS Integers, Sequences, FiniteSets, TLC

\* ------------------------------------------------------------------------
\* Bounds of the model
\* ------------------------------------------------------------------------
MaxCampaigns == 2   \* length of the campaigns array the API returns
MaxReports == 2     \* number of elements the reports document may hold
MaxClock == 2       \* millisecond clock values 1..MaxClock

\* ------------------------------------------------------------------------
\* Strings
\* ------------------------------------------------------------------------
\* str::contains with a string pattern
Contains(s, sub) ==
    \/ Len(sub) = 0
    \/ \E i \in 0..(Len(s) - Len(sub)) : SubSeq(s, i + 1, i + Len(sub)) = sub

\* str::starts_with
StartsWith(s, pre) == Len(s) >= Len(pre) /\ SubSeq(s, 1, Len(pre)) = pre

LowerChar(c) ==
    CASE c = "A" -> "a" [] c = "B" -> "b" [] c = "C" -> "c" [] c = "D" -> "d"
      [] c = "E" -> "e" [] c = "G" -> "g" [] c = "H" -> "h" [] c = "I" -> "i"
      [] c = "K" -> "k" [] c = "L" -> "l" [] c = "R" -> "r" [] c = "S" -> "s"
      [] c = "T" -> "t" [] c = "W" -> "w" [] c = "Y" -> "y"
      [] OTHER -> c

\* str::to_lowercase
RECURSIVE to_lowercase(_)
to_lowercase(s) ==
    IF Len(s) = 0 THEN ""
    ELSE LowerChar(SubSeq(s, 1, 1)) \o to_lowercase(SubSeq(s, 2, Len(s)))

\* byte value order of the characters a formatted date is made of
CharRank(c) ==
    CASE c = "-" -> 0 [] c = "0" -> 1 [] c = "1" -> 2 [] c = "2" -> 3
      [] c = "3" -> 4 [] c = "4" -> 5 [] c = "5" -> 6 [] c = "6" -> 7
      [] c = "7" -> 8 [] c = "8" -> 9 [] c = "9" -> 10
      [] OTHER -> 11

\* str::cmp: a < b in lexicographic byte order
RECURSIVE StrLess(_, _)
StrLess(a, b) ==
    IF Len(b) = 0 THEN FALSE
    ELSE IF Len(a) = 0 THEN TRUE
    ELSE LET ca == CharRank(SubSeq(a, 1, 1))
             cb == CharRank(SubSeq(b, 1, 1))
         IN  IF ca # cb THEN ca < cb
             ELSE StrLess(SubSeq(a, 2, Len(a)), SubSeq(b, 2, Len(b)))

StrLeq(a, b) == a = b \/ StrLess(a, b)

\* ------------------------------------------------------------------------
\* JSON values and results
\* ------------------------------------------------------------------------
JMissing == [t |-> "missing"]
JNull == [t |-> "null"]
JStr(s) == [t |-> "str", v |-> s]
JNum(n) == [t |-> "num", v |-> n]
JArr(a) == [t |-> "arr", v |-> a]
JObj(r) == [t |-> "obj", v |-> r]

\* Value::as_str / as_u64 / as_array followed by unwrap_or(default)
AsStrOr(j, d) == IF j.t = "str" THEN j.v ELSE d
AsU64Or(j, d) == IF j.t = "num" THEN j.v ELSE d
IsStr(j) == j.t = "str"

Ok(v) == [ok |-> TRUE, val |-> v]
Err(e) == [ok |-> FALSE, err |-> e]

\* ------------------------------------------------------------------------
\* State
\* ------------------------------------------------------------------------
VARIABLES
    settings_file,  \* settings.json: [kind |-> "absent" | "garbage" | "json", doc]
    reports_file,   \* reports.json: [kind |-> "absent" | "garbage" | "json", doc]
    now,            \* chrono::Utc::now() in milliseconds
    last,           \* the last store command dispatched and its result
    pc,             \* where the generate_report task stands
    request,        \* the ReportRequest of the generation in flight
    settings,       \* the Settings generate_report loaded
    progress_updates, \* the Vec<ProgressUpdate> of generate_report
    events,         \* every app.emit call of the generation, in order
    emit_failed,    \* history: an app.emit call of the generation returned Err
                    \* (SpecObserver lets emissions fail; by C32 the other
                    \* specifications lose no behaviour in taking them to succeed)
    http,           \* every HTTP request of the generation, in order, each
                    \* with the number of updates emitted before it was sent
    filtered_campaigns, \* the filtered campaigns of generate_report
    index,          \* the loop index over filtered_campaigns
    report_data,    \* the entries pushed so far
    store_before,   \* reports.json as it was when the generation started
    campaigns_response, \* the answer to the campaigns request, held until
                    \* the loop over the filtered campaigns starts
    click_response, \* the answer to the click-details request of the loop
                    \* iteration, held until the next iteration starts
    response,       \* what generate_report returned
    tasks           \* two generate_report tasks running at once, from the
                    \* point where each has its entries (SpecOverlap)

storeVars == <<settings_file, reports_file, now, last>>
genVars == <<pc, request, settings, progress_updates, events, emit_failed, http,
             filtered_campaigns, index, report_data, store_before,
             campaigns_response, click_response, response, tasks>>
vars == <<storeVars, genVars>>

Absent == [kind |-> "absent"]
Garbage == [kind |-> "garbage"]
JsonFile(d) == [kind |-> "json", doc |-> d]

\* ------------------------------------------------------------------------
\* Config store
\* ------------------------------------------------------------------------
DefaultAudienceId == "6732b2b110"
DefaultAdvertisers ==
    <<"HBCB (Horizon Blue Cross Blue Shield)", "NJUA", "NJ American Water",
      "EisnerAmper", "Gibbons Law", "Valley Health Systems", "Withum", "Grassi",
      "ACG", "Local 825", "Mizuho", "Caucus", "MSU", "Jersey City Summit",
      "NJ Bankers">>

\* what the dirs crate can report when asked: a download directory, only a
\* home directory, or neither
OsDirs == {"download", "home", "none"}

\* dirs::download_dir(), else dirs::home_dir() joined with "Downloads"
default_download_dir(os) ==
    CASE os = "download" -> Ok("/home/u/Downloads")
      [] os = "home" -> Ok("/home/u" \o "/" \o "Downloads")
      [] OTHER -> Err("Could not determine home directory")

\* serde_json::to_string_pretty(&settings)
SettingsToJson(s) ==
    [mailchimp_api_key |-> JStr(s.mailchimp_api_key),
     mailchimp_audience_id |-> JStr(s.mailchimp_audience_id),
     advertisers |-> JArr([i \in 1..Len(s.advertisers) |-> JStr(s.advertisers[i])]),
     download_directory |-> JStr(s.download_directory)]

\* serde_json::from_str::<Settings>: every field present with its type
SettingsStrictOk(d) ==
    /\ IsStr(d.mailchimp_api_key)
    /\ IsStr(d.mailchimp_audience_id)
    /\ d.advertisers.t = "arr"
    /\ \A i \in 1..Len(d.advertisers.v) : IsStr(d.advertisers.v[i])
    /\ IsStr(d.download_directory)

SettingsStrict(d) ==
    [mailchimp_api_key |-> d.mailchimp_api_key.v,
     mailchimp_audience_id |-> d.mailchimp_audience_id.v,
     advertisers |-> [i \in 1..Len(d.advertisers.v) |-> d.advertisers.v[i].v],
     download_directory |-> d.download_directory.v]

\* filter_map(|item| item.as_str()) over a JSON array
RECURSIVE StrItems(_)
StrItems(a) ==
    IF Len(a) = 0 THEN <<>>
    ELSE (IF IsStr(Head(a)) THEN <<Head(a).v>> ELSE <<>>) \o StrItems(Tail(a))

\* the fallback of load_settings: the document as an untyped tree
SettingsTolerant(d, dir) ==
    [mailchimp_api_key |-> AsStrOr(d.mailchimp_api_key, ""),
     mailchimp_audience_id |-> DefaultAudienceId,
     advertisers |-> IF d.advertisers.t = "arr" THEN StrItems(d.advertisers.v) ELSE <<>>,
     download_directory |-> dir]

\* mutant of EnsureDownloadDir: the default replaces the directory always
EnsureDownloadDir_always(s, os) ==
    LET dd == default_download_dir(os)
    IN  IF dd.ok THEN Ok([s EXCEPT !.download_directory = dd.val]) ELSE dd

\* the trailing "ensure download_directory is set" of load_settings
EnsureDownloadDir(s, os) ==
    IF s.download_directory = ""
    THEN LET dd == default_download_dir(os)
         IN  IF dd.ok THEN Ok([s EXCEPT !.download_directory = dd.val]) ELSE dd
    ELSE Ok(s)

load_settings(file, os) ==
    IF file.kind = "absent"
    THEN LET dd == default_download_dir(os)
         IN  IF dd.ok
             THEN Ok([mailchimp_api_key |-> "",
                      mailchimp_audience_id |-> DefaultAudienceId,
                      advertisers |-> DefaultAdvertisers,
                      download_directory |-> dd.val])
             ELSE dd
    ELSE IF file.kind = "garbage" THEN Err("Failed to parse settings JSON")
    ELSE IF SettingsStrictOk(file.doc)
         THEN EnsureDownloadDir(SettingsStrict(file.doc), os)
         ELSE LET dd == default_download_dir(os)
              IN  IF dd.ok
                  THEN EnsureDownloadDir(SettingsTolerant(file.doc, dd.val), os)
                  ELSE dd

\* serde_json::to_string_pretty then fs::write; the directory is created first
save_settings(file, s, io_ok) ==
    IF io_ok
    THEN [file |-> [kind |-> "json", doc |-> SettingsToJson(s)], res |-> Ok("unit")]
    ELSE [file |-> file, res |-> Err("Failed to write settings")]

\* ------------------------------------------------------------------------
\* Report store
\* ------------------------------------------------------------------------
JBool(b) == [t |-> "bool", v |-> b]
EmptyObj == [t |-> "obj", v |-> <<>>]

MetricNames == {"unique_opens", "total_opens", "total_recipients", "total_clicks", "ctr"}

Metrics(uo, to, tr, tc, c) ==
    [unique_opens |-> uo, total_opens |-> to, total_recipients |-> tr,
     total_clicks |-> tc, ctr |-> c]

\* the default_metrics of load_reports
default_metrics == Metrics(TRUE, TRUE, TRUE, TRUE, TRUE)

MetricsToJson(m) == JObj([n \in MetricNames |-> JBool(m[n])])

\* serde_json::from_value::<Metrics>
MetricsDecodeOk(j) ==
    /\ j.t = "obj"
    /\ MetricNames \subseteq DOMAIN j.v
    /\ \A n \in MetricNames : j.v[n].t = "bool"

MetricsDecode(j) ==
    Metrics(j.v["unique_opens"].v, j.v["total_opens"].v, j.v["total_recipients"].v,
            j.v["total_clicks"].v, j.v["ctr"].v)

DateRangeToJson(d) == JObj([start_date |-> JStr(d.start_date), end_date |-> JStr(d.end_date)])

\* serde_json::from_value::<DateRange>
DateRangeDecodeOk(j) ==
    /\ j.t = "obj"
    /\ {"start_date", "end_date"} \subseteq DOMAIN j.v
    /\ IsStr(j.v["start_date"]) /\ IsStr(j.v["end_date"])

DateRangeDecode(j) == [start_date |-> j.v["start_date"].v, end_date |-> j.v["end_date"].v]

EmptyDateRange == [start_date |-> "", end_date |-> ""]

\* Serialize for SavedReport: one JSON object per report
ReportToJson(r) ==
    [id |-> JStr(r.id), name |-> JStr(r.name), advertiser |-> JStr(r.advertiser),
     report_type |-> JStr(r.report_type), date_range |-> DateRangeToJson(r.date_range),
     created |-> JStr(r.created), data |-> r.data, metrics |-> MetricsToJson(r.metrics)]

\* the field-by-field conversion of load_reports
ConvertReport(j) ==
    [id |-> AsStrOr(j.id, ""),
     name |-> AsStrOr(j.name, ""),
     advertiser |-> AsStrOr(j.advertiser, ""),
     report_type |-> AsStrOr(j.report_type, ""),
     date_range |-> IF DateRangeDecodeOk(j.date_range)
                    THEN DateRangeDecode(j.date_range) ELSE EmptyDateRange,
     created |-> AsStrOr(j.created, ""),
     data |-> IF j.data.t = "missing" THEN EmptyObj ELSE j.data,
     metrics |-> IF MetricsDecodeOk(j.metrics)
                 THEN MetricsDecode(j.metrics) ELSE default_metrics]

load_reports(file) ==
    IF file.kind = "absent" THEN Ok(<<>>)
    ELSE IF file.kind = "garbage" THEN Err("Failed to parse reports JSON")
    ELSE Ok([i \in 1..Len(file.doc) |-> ConvertReport(file.doc[i])])

\* serde_json::to_string_pretty(&reports) for a Vec<SavedReport>
ReportsToJson(reports) == [i \in 1..Len(reports) |-> ReportToJson(reports[i])]

\* mutant of save_report: the document is rewritten with the new report only
save_report_overwrite(file, report, io_ok) ==
    LET loaded == load_reports(file)
    IN  IF ~loaded.ok THEN [file |-> file, res |-> loaded]
        ELSE IF ~io_ok THEN [file |-> file, res |-> Err("Failed to write reports")]
        ELSE [file |-> JsonFile(ReportsToJson(<<report>>)), res |-> Ok("unit")]

\* mutant of save_report: the new report is put in front of the list
save_report_prepend(file, report, io_ok) ==
    LET loaded == load_reports(file)
    IN  IF ~loaded.ok THEN [file |-> file, res |-> loaded]
        ELSE IF ~io_ok THEN [file |-> file, res |-> Err("Failed to write reports")]
        ELSE [file |-> JsonFile(ReportsToJson(<<report>> \o loaded.val)),
              res |-> Ok("unit")]

\* load_reports, push, serialise, fs::write
save_report(file, report, io_ok) ==
    LET loaded == load_reports(file)
    IN  IF ~loaded.ok THEN [file |-> file, res |-> loaded]
        ELSE IF ~io_ok THEN [file |-> file, res |-> Err("Failed to write reports")]
        ELSE [file |-> JsonFile(ReportsToJson(Append(loaded.val, report))),
              res |-> Ok("unit")]

\* serde_json::from_str::<Vec<SavedReport>>: the derived, strict decoder
ReportStrictOk(j) ==
    /\ IsStr(j.id) /\ IsStr(j.name) /\ IsStr(j.advertiser)
    /\ IsStr(j.report_type) /\ IsStr(j.created)
    /\ DateRangeDecodeOk(j.date_range)
    /\ j.data.t # "missing"
    /\ MetricsDecodeOk(j.metrics)

\* mutant of Retain: only the first report with the id is removed
Retain_first(reports, report_id) ==
    IF \E i \in 1..Len(reports) : reports[i].id = report_id
    THEN LET k == CHOOSE i \in 1..Len(reports) :
                     /\ reports[i].id = report_id
                     /\ \A j \in 1..(i - 1) : reports[j].id # report_id
         IN  SubSeq(reports, 1, k - 1) \o SubSeq(reports, k + 1, Len(reports))
    ELSE reports

\* Vec::retain(|r| r.id != report_id)
RECURSIVE Retain(_, _)
Retain(reports, report_id) ==
    IF Len(reports) = 0 THEN <<>>
    ELSE (IF Head(reports).id # report_id THEN <<Head(reports)>> ELSE <<>>)
         \o Retain(Tail(reports), report_id)

delete_report(file, report_id, io_ok) ==
    IF file.kind = "absent" THEN [file |-> file, res |-> Ok("unit")]
    ELSE IF file.kind = "garbage" THEN [file |-> file, res |-> Err("Failed to parse reports")]
    ELSE IF \E i \in 1..Len(file.doc) : ~ReportStrictOk(file.doc[i])
         THEN [file |-> file, res |-> Err("Failed to parse reports")]
    ELSE IF ~io_ok THEN [file |-> file, res |-> Err("Failed to write reports")]
    ELSE [file |-> JsonFile(ReportsToJson(Retain(
                       [i \in 1..Len(file.doc) |-> ConvertReport(file.doc[i])], report_id))),
          res |-> Ok("unit")]

\* ------------------------------------------------------------------------
\* Validation
\* ------------------------------------------------------------------------
\* Value::get(key): a member of an object, or nothing
Get(j, key) == IF j.t = "obj" /\ key \in DOMAIN j.v THEN j.v[key] ELSE JMissing

\* url.contains(char::is_whitespace) || url.contains('<') || url.contains('>')
HasBadPathChar(url) == Contains(url, " ") \/ Contains(url, "<") \/ Contains(url, ">")

\* the text after the scheme of a url that starts with http:// or https://
AfterScheme(url) ==
    IF StartsWith(url, "https://") THEN SubSeq(url, 9, Len(url))
    ELSE SubSeq(url, 8, Len(url))

\* the host of Url::parse: the text between the scheme and the first '/'
HostOf(rest) ==
    IF Contains(rest, "/")
    THEN LET k == CHOOSE i \in 1..Len(rest) :
                     /\ SubSeq(rest, i, i) = "/"
                     /\ \A j \in 1..(i - 1) : SubSeq(rest, j, j) # "/"
         IN  SubSeq(rest, 1, k - 1)
    ELSE rest

\* Url::parse(url).is_ok() for an http(s) url: a non-empty host made of
\* allowed host characters
UrlParseOk(url) ==
    LET host == HostOf(AfterScheme(url))
    IN  Len(host) > 0 /\ ~HasBadPathChar(host)

\* mutant of validate_tracking_urls: an empty element is rejected as well
validate_tracking_urls_no_skip(urls) ==
    IF Len(urls) = 0 THEN Err("No tracking URLs provided")
    ELSE IF \E i \in 1..Len(urls) :
              IF ~StartsWith(urls[i], "http://") /\ ~StartsWith(urls[i], "https://")
              THEN urls[i] = "" \/ HasBadPathChar(urls[i])
              ELSE ~UrlParseOk(urls[i])
    THEN Err("Invalid tracking URL")
    ELSE Ok("unit")

validate_tracking_urls(urls) ==
    IF Len(urls) = 0 THEN Err("No tracking URLs provided")
    ELSE IF \E i \in 1..Len(urls) :
              /\ urls[i] # ""
              /\ IF ~StartsWith(urls[i], "http://") /\ ~StartsWith(urls[i], "https://")
                 THEN HasBadPathChar(urls[i])
                 ELSE ~UrlParseOk(urls[i])
    THEN Err("Invalid tracking URL")
    ELSE Ok("unit")

\* mutant of TitleMatches: the title is compared as it is written
TitleMatches_exact_case(campaign, newsletter_type) ==
    LET title == Get(Get(campaign, "settings"), "title")
        newsletter_type_lower == to_lowercase(newsletter_type)
    IN  /\ IsStr(title)
        /\ IF newsletter_type_lower = "hc"
           THEN Contains(title.v, "hc") \/ Contains(title.v, "health care")
           ELSE Contains(title.v, newsletter_type_lower)

\* the type-keyword test written out twice in the source
TitleMatches(campaign, newsletter_type) ==
    LET title == Get(Get(campaign, "settings"), "title")
        newsletter_type_lower == to_lowercase(newsletter_type)
    IN  /\ IsStr(title)
        /\ LET title_lower == to_lowercase(title.v)
           IN  IF newsletter_type_lower = "hc"
               THEN Contains(title_lower, "hc") \/ Contains(title_lower, "health care")
               ELSE Contains(title_lower, newsletter_type_lower)

\* mutant of validate_campaign_data: only the empty array is rejected
validate_campaign_data_nonempty_only(campaigns, newsletter_type) ==
    IF Len(campaigns) = 0 THEN Err("No campaigns found for the specified date range")
    ELSE Ok("unit")

validate_campaign_data(campaigns, newsletter_type) ==
    IF Len(campaigns) = 0 THEN Err("No campaigns found for the specified date range")
    ELSE IF Cardinality({i \in 1..Len(campaigns) :
                            TitleMatches(campaigns[i], newsletter_type)}) = 0
    THEN Err("No campaigns found matching the newsletter type")
    ELSE Ok("unit")

\* mutant of FilterCampaigns: the filter compares the title as it is written,
\* which is not the test of validate_campaign_data
RECURSIVE FilterCampaigns_exact_case(_, _)
FilterCampaigns_exact_case(campaigns, newsletter_type) ==
    IF Len(campaigns) = 0 THEN <<>>
    ELSE (IF TitleMatches_exact_case(Head(campaigns), newsletter_type)
          THEN <<Head(campaigns)>> ELSE <<>>)
         \o FilterCampaigns_exact_case(Tail(campaigns), newsletter_type)

\* the filtering loop of generate_report
RECURSIVE FilterCampaigns(_, _)
FilterCampaigns(campaigns, newsletter_type) ==
    IF Len(campaigns) = 0 THEN <<>>
    ELSE (IF TitleMatches(Head(campaigns), newsletter_type)
          THEN <<Head(campaigns)>> ELSE <<>>)
         \o FilterCampaigns(Tail(campaigns), newsletter_type)

\* ------------------------------------------------------------------------
\* Dates
\* ------------------------------------------------------------------------
IsDigit(c) == c \in {"0", "1", "2", "3", "4", "5", "6", "7", "8", "9"}
AllDigits(s) == \A i \in 1..Len(s) : IsDigit(SubSeq(s, i, i))

MonthStrs == {"01", "02", "03", "04", "05", "06", "07", "08", "09", "10", "11", "12"}
DayStrs == MonthStrs \cup {"13", "14", "15", "16", "17", "18", "19", "20", "21", "22",
                           "23", "24", "25", "26", "27", "28", "29", "30", "31"}

\* NaiveDate::parse_from_str(s, "%Y-%m-%d").is_ok(), for zero-padded input
IsYmd(s) ==
    /\ Len(s) = 10
    /\ AllDigits(SubSeq(s, 1, 4))
    /\ SubSeq(s, 5, 5) = "-" /\ SubSeq(s, 8, 8) = "-"
    /\ SubSeq(s, 6, 7) \in MonthStrs
    /\ SubSeq(s, 9, 10) \in DayStrs

\* chrono::DateTime::parse_from_rfc3339(s).is_ok()
IsRfc3339(s) ==
    /\ Len(s) \in {20, 25}
    /\ IsYmd(SubSeq(s, 1, 10))
    /\ SubSeq(s, 11, 11) = "T"
    /\ AllDigits(SubSeq(s, 12, 13)) /\ SubSeq(s, 14, 14) = ":"
    /\ AllDigits(SubSeq(s, 15, 16)) /\ SubSeq(s, 17, 17) = ":"
    /\ AllDigits(SubSeq(s, 18, 19))
    /\ IF Len(s) = 20 THEN SubSeq(s, 20, 20) = "Z"
       ELSE /\ SubSeq(s, 20, 20) \in {"+", "-"}
            /\ AllDigits(SubSeq(s, 21, 22)) /\ SubSeq(s, 23, 23) = ":"
            /\ AllDigits(SubSeq(s, 24, 25))

\* dt.format("%Y-%m-%d"): the calendar date in the timestamp's own offset
formatted_date(send_time) == SubSeq(send_time, 1, 10)

\* chrono::Utc::now().format("%Y-%m-%d")
Today(ms) == "2024-02-01"

\* ------------------------------------------------------------------------
\* The per-campaign computation of generate_report
\* ------------------------------------------------------------------------
\* the data-center tag: settings.mailchimp_api_key.split('-').last()
RECURSIVE dc(_)
dc(key) ==
    IF Contains(key, "-")
    THEN LET k == CHOOSE i \in 1..Len(key) :
                     /\ SubSeq(key, i, i) = "-"
                     /\ \A j \in 1..(i - 1) : SubSeq(key, j, j) # "-"
         IN  dc(SubSeq(key, k + 1, Len(key)))
    ELSE key

base_url(key) == "https://" \o dc(key) \o ".api.mailchimp.com/3.0"

\* mutant of Skipped: a send_time that is a string is not parsed
Skipped_unparsed(campaign) ==
    \/ ~IsStr(Get(campaign, "id"))
    \/ ~IsStr(Get(campaign, "send_time"))

\* a campaign the loop skips: no string id, no string send_time, or a
\* send_time that does not parse
Skipped(campaign) ==
    \/ ~IsStr(Get(campaign, "id"))
    \/ ~IsStr(Get(campaign, "send_time"))
    \/ ~IsRfc3339(Get(campaign, "send_time").v)

\* mutant of SumClicks: a url that holds several fragments is counted once
RECURSIVE SumClicks_dedup(_, _)
SumClicks_dedup(urls_clicked, tracking_urls) ==
    IF Len(urls_clicked) = 0 THEN 0
    ELSE LET url_item == Head(urls_clicked)
             url == Get(url_item, "url")
             hits == IF IsStr(url)
                        /\ \E k \in 1..Len(tracking_urls) :
                              /\ tracking_urls[k] # ""
                              /\ Contains(url.v, tracking_urls[k])
                     THEN 1 ELSE 0
         IN  hits * AsU64Or(Get(url_item, "total_clicks"), 0)
             + SumClicks_dedup(Tail(urls_clicked), tracking_urls)

\* the two nested loops over urls_clicked and request.tracking_urls
RECURSIVE SumClicks(_, _)
SumClicks(urls_clicked, tracking_urls) ==
    IF Len(urls_clicked) = 0 THEN 0
    ELSE LET url_item == Head(urls_clicked)
             url == Get(url_item, "url")
             hits == IF IsStr(url)
                     THEN Cardinality({k \in 1..Len(tracking_urls) :
                                          /\ tracking_urls[k] # ""
                                          /\ Contains(url.v, tracking_urls[k])})
                     ELSE 0
         IN  hits * AsU64Or(Get(url_item, "total_clicks"), 0)
             + SumClicks(Tail(urls_clicked), tracking_urls)

\* mutant of ad_clicks: a body that is not JSON counts as one click
ad_clicks_garbage_counts(click_resp, tracking_urls) ==
    IF click_resp.kind = "http" /\ click_resp.status \in 200..299
    THEN IF ~click_resp.body.json THEN 1
         ELSE IF Get(click_resp.body.doc, "urls_clicked").t = "arr"
         THEN SumClicks(Get(click_resp.body.doc, "urls_clicked").v, tracking_urls)
         ELSE 0
    ELSE 0

\* mutant of ad_clicks: the status of the answer is not looked at
ad_clicks_any_status(click_resp, tracking_urls) ==
    IF click_resp.kind = "http"
       /\ click_resp.body.json
       /\ Get(click_resp.body.doc, "urls_clicked").t = "arr"
    THEN SumClicks(Get(click_resp.body.doc, "urls_clicked").v, tracking_urls)
    ELSE 0

\* ad_clicks after the click-details response has been handled
ad_clicks(click_resp, tracking_urls) ==
    IF click_resp.kind = "http" /\ click_resp.status \in 200..299
       /\ click_resp.body.json
       /\ Get(click_resp.body.doc, "urls_clicked").t = "arr"
    THEN SumClicks(Get(click_resp.body.doc, "urls_clicked").v, tracking_urls)
    ELSE 0

\* mutant of calc_ctr: the ratio is not scaled to a percentage
calc_ctr_ratio(clicks, unique_opens) ==
    IF unique_opens > 0 THEN [num |-> clicks, den |-> unique_opens]
    ELSE [num |-> 0, den |-> 1]

\* ctr as an exact fraction num/den of the f64 the source computes
calc_ctr(clicks, unique_opens) ==
    IF unique_opens > 0 THEN [num |-> clicks * 100, den |-> unique_opens]
    ELSE [num |-> 0, den |-> 1]

\* the json! entry of one campaign
campaign_report(campaign, clicks) ==
    LET report_summary == Get(campaign, "report_summary")
        unique_opens == AsU64Or(Get(report_summary, "unique_opens"), 0)
        total_opens == AsU64Or(Get(report_summary, "opens"), 0)
        total_recipients == AsU64Or(Get(campaign, "emails_sent"), 0)
    IN  JObj([send_date |-> JStr(formatted_date(Get(campaign, "send_time").v)),
              unique_opens |-> JNum(unique_opens),
              total_opens |-> JNum(total_opens),
              total_recipients |-> JNum(total_recipients),
              total_clicks |-> JNum(clicks),
              ctr |-> JNum(calc_ctr(clicks, unique_opens))])

\* mutant of IncludeEntry: every answered campaign yields an entry
IncludeEntry_always(clicks) == clicks >= 0

\* whether the entry is pushed: "only include campaigns that had ad clicks"
IncludeEntry(clicks) == clicks > 0

\* ------------------------------------------------------------------------
\* f64 arithmetic of the progress computation.  A positive f64 is
\* [sig, exp]: sig is its 53-bit significand, most significant bit first,
\* and exp the power of two of that first bit; zero has the empty significand.
\* ------------------------------------------------------------------------
F64Zero == [sig |-> <<>>, exp |-> 0]

\* Op of the value of v, with v evaluated once
Let(v, Op(_)) == CHOOSE r \in {Op(e) : e \in {v}} : TRUE

\* the last width binary digits of a natural number, most significant first
Bits(v, width) ==
    Let(<<v, width>>,
        LAMBDA p : SubSeq([k \in 1..p[2] |-> (p[1] \div (2 ^ (p[2] - k))) % 2], 1, p[2]))

\* the binary digits of a natural number below 2^30, without leading zeros
NatBits(n) ==
    Let(n, LAMBDA v :
        Bits(v, CHOOSE w \in 0..30 : v < 2 ^ w /\ (w = 0 \/ v >= 2 ^ (w - 1))))

\* the natural number a sequence of binary digits stands for
RECURSIVE BitsVal(_)
BitsVal(bits) ==
    IF Len(bits) = 0 THEN 0
    ELSE 2 * Let(SubSeq(bits, 1, Len(bits) - 1), BitsVal) + bits[Len(bits)]

\* round-to-nearest-even of the exact value whose digits are bits (first
\* digit 1, of weight 2^exp), followed by a non-zero tail when sticky
F64Round(bits, exp, sticky) ==
    IF Len(bits) <= 53
    THEN [sig |-> bits \o [k \in 1..(53 - Len(bits)) |-> 0], exp |-> exp]
    ELSE LET tail == sticky \/ \E k \in 55..Len(bits) : bits[k] = 1
             up == bits[54] = 1 /\ (tail \/ bits[53] = 1)
             \* one more in the last place: z is the place of the last 0 kept
             Next53(z) ==
                 IF z = 0 THEN [sig |-> <<1>> \o [k \in 1..52 |-> 0], exp |-> exp + 1]
                 ELSE [sig |-> SubSeq(bits, 1, z - 1) \o <<1>> \o [k \in 1..(53 - z) |-> 0],
                       exp |-> exp]
         IN  IF ~up THEN [sig |-> SubSeq(bits, 1, 53), exp |-> exp]
             ELSE Let(CHOOSE k \in 0..53 : /\ k = 0 \/ bits[k] = 0
                                           /\ \A j \in (k + 1)..53 : bits[j] = 1,
                      Next53)

\* a as f64 / n as f64 for naturals 0 < a < 64 and 0 < n <= 2^20.  The
\* quotient is scaled into [1, 2) as num / den with exp the power of two
\* taken out; after the leading 1, long division yields 8 digits a step for
\* 7 steps, and the rest is a remainder; then rounding.
F64Div(a, n) ==
    LET num(k) == IF k < 0 THEN a * 2 ^ (0 - k) ELSE a
        den(k) == IF k > 0 THEN n * 2 ^ k ELSE n
        exp == CHOOSE k \in -20..5 : den(k) <= num(k) /\ num(k) < 2 * den(k)
        RECURSIVE Rem(_)
        Rem(k) == IF k = 0 THEN num(exp) - den(exp) ELSE (Rem(k - 1) * 256) % den(exp)
        Step(k) == Bits((Rem(k - 1) * 256) \div den(exp), 8)
    IN  Let(<<1>> \o Step(1) \o Step(2) \o Step(3) \o Step(4) \o Step(5) \o Step(6)
                 \o Step(7),
            LAMBDA digits : F64Round(digits, exp, Rem(7) # 0))

\* (i as f64) * x for a natural i < 2^20: the exact product of i and the
\* significand, then rounding.  The significand is multiplied 8 digits at a
\* time from the last: Limb(j) is its j-th group of digits, Carry(j) what
\* the groups below hand to it.
F64MulNat(i, x) ==
    LET Mul(y) ==
            LET Limb(j) == BitsVal(SubSeq(y.sig, IF j = 6 THEN 1 ELSE 46 - 8 * j, 53 - 8 * j))
                RECURSIVE Carry(_)
                Carry(j) == IF j = 0 THEN 0 ELSE (Limb(j - 1) * i + Carry(j - 1)) \div 256
                Low(j) == Bits((Limb(j) * i + Carry(j)) % 256, 8)
            IN  Let(NatBits(Limb(6) * i + Carry(6)) \o Low(5) \o Low(4) \o Low(3)
                         \o Low(2) \o Low(1) \o Low(0),
                    LAMBDA bits : F64Round(bits, y.exp + Len(bits) - 53, FALSE))
    IN  IF i = 0 THEN F64Zero
        ELSE Let(x, LAMBDA y : IF y = F64Zero THEN F64Zero ELSE Mul(y))

\* x as u8: the integer part, saturating at 255
F64AsU8(x) ==
    LET Truncated(y) ==
            IF y = F64Zero \/ y.exp < 0 THEN 0
            ELSE IF y.exp >= 8 THEN 255
            ELSE BitsVal(SubSeq(y.sig, 1, y.exp + 1))
    IN  Let(x, Truncated)

\* 40.0 / (filtered_campaigns.len() as f64), or 0.0 for no campaign
campaign_progress_increment(len) == IF len = 0 THEN F64Zero ELSE F64Div(40, len)

\* mutant of current_progress: the share of the campaigns still to process
current_progress_remaining(i, len) ==
    40 + (IF len = 0 THEN 0 ELSE ((len - i) * 40) \div len)

\* 40 + ((index as f64) * campaign_progress_increment) as u8
current_progress(i, len) ==
    40 + F64AsU8(F64MulNat(i, campaign_progress_increment(len)))

\* the sort key of the closure: get("send_date").as_str().unwrap_or("")
SendDate(e) == AsStrOr(Get(e, "send_date"), "")

\* report_data.sort_by(send_date): a stable sort
RECURSIVE InsertByDate(_, _)
InsertByDate(sorted, e) ==
    IF Len(sorted) = 0 THEN <<e>>
    ELSE IF StrLess(SendDate(e), SendDate(Head(sorted))) THEN <<e>> \o sorted
    ELSE <<Head(sorted)>> \o InsertByDate(Tail(sorted), e)

\* mutant of sort_by_date: the entries stay in processing order
sort_by_date_skipped(entries) == entries

RECURSIVE sort_by_date(_)
sort_by_date(entries) ==
    IF Len(entries) = 0 THEN <<>>
    ELSE InsertByDate(sort_by_date(SubSeq(entries, 1, Len(entries) - 1)),
                      entries[Len(entries)])

\* the json! final_report
final_report(campaigns, entries, metrics) ==
    JObj([campaigns |-> JArr(campaigns),
          report_data |-> JArr(entries),
          metrics |-> MetricsToJson(metrics)])

\* mutant of new_report: the report is stored with the default selection
new_report_default_metrics(req, data, ms) ==
    [id |-> "report-" \o ToString(ms),
     name |-> req.advertiser \o "-" \o req.newsletter_type \o "-" \o Today(ms),
     advertiser |-> req.advertiser,
     report_type |-> req.newsletter_type,
     date_range |-> req.date_range,
     created |-> Today(ms),
     data |-> data,
     metrics |-> default_metrics]

\* the SavedReport generate_report builds
new_report(req, data, ms) ==
    [id |-> "report-" \o ToString(ms),
     name |-> req.advertiser \o "-" \o req.newsletter_type \o "-" \o Today(ms),
     advertiser |-> req.advertiser,
     report_type |-> req.newsletter_type,
     date_range |-> req.date_range,
     created |-> Today(ms),
     data |-> data,
     metrics |-> req.metrics]

ProgressUpdate(stage, progress) == [stage |-> stage, progress |-> progress]

\* app.emit("report-progress", update) for each update of ups
ProgressEvents(ups) ==
    [i \in 1..Len(ups) |-> [name |-> "report-progress", payload |-> ups[i]]]

ReportResponse(success, message, data, ups) ==
    [st |-> "ok", success |-> success, message |-> message, data |-> data,
     progress_updates |-> ups]

ErrResponse(message) == [st |-> "err", err |-> message]
NoResponse == [st |-> "none"]

\* mutant of Unconfigured: only the credential is looked at
Unconfigured_key_only(s) == s.mailchimp_api_key = ""

\* the "settings not configured" test of generate_report
Unconfigured(s) == s.mailchimp_api_key = "" \/ s.mailchimp_audience_id = ""

\* mutant of api_error_message: the body text is left out
api_error_message_bare(error_text) == "Mailchimp API error"

\* the message of the non-2xx answer: format!("Mailchimp API error: {}", error_text)
api_error_message(error_text) == "Mailchimp API error: " \o error_text

\* mutant of no_data_message: the newsletter type is left out
no_data_message_generic(newsletter_type) ==
    "No data found for the specified tracking URLs."

\* the message of the empty-result answer
no_data_message(newsletter_type) ==
    "No data found for the specified tracking URLs in campaigns matching '"
    \o newsletter_type
    \o "'. Please verify your tracking URLs and newsletter type."

\* ------------------------------------------------------------------------
\* CSV export: download_csv and open_report_in_excel.  The two commands are
\* written out separately in the source, and so they are here.
\* ------------------------------------------------------------------------
\* Value::as_bool followed by unwrap_or(default)
AsBoolOr(j, d) == IF j.t = "bool" THEN j.v ELSE d

\* metrics.get(name).and_then(|v| v.as_bool()).unwrap_or(false)
MetricOn(metrics, name) == AsBoolOr(Get(metrics, name), FALSE)

\* Value::as_f64 followed by unwrap_or(0.0); a JSON number read as f64 is the
\* fraction it was written from
AsF64Or0(j) == IF j.t = "num" THEN j.v ELSE [num |-> 0, den |-> 1]

\* format!("{:.6}", x): x rounded to six decimals
Fixed6(x) ==
    LET q == (2 * x.num * 1000000 + x.den) \div (2 * x.den)
    IN  ToString(q \div 1000000) \o "."
        \o SubSeq(ToString(1000000 + (q % 1000000)), 2, 7)

\* [&str]::join(sep)
RECURSIVE Join(_, _)
Join(fields, sep) ==
    IF Len(fields) = 0 THEN ""
    ELSE IF Len(fields) = 1 THEN fields[1]
    ELSE fields[1] \o sep \o Join(Tail(fields), sep)

SpecialChars ==
    {" ", ",", ".", "/", "\\", ":", ";", "\"", "'", "!", "?", "*", "(", ")", "[", "]",
     "{", "}", "<", ">"}

\* advertiser.replace(&[' ', ',', '.', ...][..], "_")
RECURSIVE ReplaceSpecial(_)
ReplaceSpecial(str) ==
    IF Len(str) = 0 THEN ""
    ELSE (IF SubSeq(str, 1, 1) \in SpecialChars THEN "_" ELSE SubSeq(str, 1, 1))
         \o ReplaceSpecial(SubSeq(str, 2, Len(str)))

\* what an export command leaves behind: its return value and the file written
Exported(dir, file_name, csv) ==
    [res |-> Ok(dir \o "/" \o file_name),
     written |-> <<[dir |-> dir, file_name |-> file_name, csv |-> csv]>>]
ExportFailed(e) == [res |-> Err(e), written |-> <<>>]

\* std::env::temp_dir()
temp_dir == "/tmp"

\* ---- open_report_in_excel ----
excel_header_fields(metrics) ==
    <<"Date">>
    \o (IF MetricOn(metrics, "unique_opens") THEN <<"Unique Opens">> ELSE <<>>)
    \o (IF MetricOn(metrics, "total_opens") THEN <<"Total Opens">> ELSE <<>>)
    \o (IF MetricOn(metrics, "total_recipients") THEN <<"Total Recipients">> ELSE <<>>)
    \o (IF MetricOn(metrics, "total_clicks") THEN <<"Total Clicks">> ELSE <<>>)
    \o (IF MetricOn(metrics, "ctr") THEN <<"CTR">> ELSE <<>>)

excel_date_range(reportData) ==
    LET range == Get(reportData, "date_range")
        start == AsStrOr(Get(range, "start_date"), "")
        end == AsStrOr(Get(range, "end_date"), "")
    IN  IF range.t # "missing" /\ start # "" /\ end # ""
        THEN start \o "_" \o end
        ELSE "unknown-dates"

excel_file_name(reportData, timestamp) ==
    LET advertiser == AsStrOr(Get(reportData, "advertiser"), "unknown-advertiser")
        newsletter_type == AsStrOr(Get(reportData, "report_type"), "unknown-type")
        clean_advertiser == ReplaceSpecial(advertiser)
    IN  clean_advertiser \o "_" \o newsletter_type \o "_" \o excel_date_range(reportData)
        \o "_" \o timestamp \o ".csv"

\* mutant of excel_row_fields: ctr is written with two decimals
excel_row_fields_short_ctr(entry, metrics) ==
    <<AsStrOr(Get(entry, "send_date"), "N/A")>>
    \o (IF MetricOn(metrics, "unique_opens")
        THEN <<ToString(AsU64Or(Get(entry, "unique_opens"), 0))>> ELSE <<>>)
    \o (IF MetricOn(metrics, "total_opens")
        THEN <<ToString(AsU64Or(Get(entry, "total_opens"), 0))>> ELSE <<>>)
    \o (IF MetricOn(metrics, "total_recipients")
        THEN <<ToString(AsU64Or(Get(entry, "total_recipients"), 0))>> ELSE <<>>)
    \o (IF MetricOn(metrics, "total_clicks")
        THEN <<ToString(AsU64Or(Get(entry, "total_clicks"), 0))>> ELSE <<>>)
    \o (IF MetricOn(metrics, "ctr")
        THEN <<SubSeq(Fixed6(AsF64Or0(Get(entry, "ctr"))), 1,
                      Len(Fixed6(AsF64Or0(Get(entry, "ctr")))) - 4)>> ELSE <<>>)

excel_row_fields(entry, metrics) ==
    <<AsStrOr(Get(entry, "send_date"), "N/A")>>
    \o (IF MetricOn(metrics, "unique_opens")
        THEN <<ToString(AsU64Or(Get(entry, "unique_opens"), 0))>> ELSE <<>>)
    \o (IF MetricOn(metrics, "total_opens")
        THEN <<ToString(AsU64Or(Get(entry, "total_opens"), 0))>> ELSE <<>>)
    \o (IF MetricOn(metrics, "total_recipients")
        THEN <<ToString(AsU64Or(Get(entry, "total_recipients"), 0))>> ELSE <<>>)
    \o (IF MetricOn(metrics, "total_clicks")
        THEN <<ToString(AsU64Or(Get(entry, "total_clicks"), 0))>> ELSE <<>>)
    \o (IF MetricOn(metrics, "ctr")
        THEN <<Fixed6(AsF64Or0(Get(entry, "ctr")))>> ELSE <<>>)

RECURSIVE excel_rows(_, _)
excel_rows(report_entries, metrics) ==
    IF Len(report_entries) = 0 THEN ""
    ELSE Join(excel_row_fields(Head(report_entries), metrics), ",") \o "\n"
         \o excel_rows(Tail(report_entries), metrics)

\* fs: what the file system does: "ok", "nowrite" (fs::write fails) or
\* "nonutf8" (the path of the temp directory is not valid UTF-8)
open_report_in_excel(reportData, timestamp, fs) ==
    LET data == Get(reportData, "data")
        metrics == Get(data, "metrics")
        file_name == excel_file_name(reportData, timestamp)
        report_entries == Get(data, "report_data")
        csv == Join(excel_header_fields(metrics), ",") \o "\n"
               \o (IF report_entries.t = "arr"
                   THEN excel_rows(report_entries.v, metrics)
                   ELSE "No campaign data found\n")
    IN  IF data.t = "missing"
        THEN ExportFailed("Invalid report format: missing data field")
        ELSE IF metrics.t = "missing"
        THEN ExportFailed("Invalid report format: missing metrics")
        ELSE IF fs = "nowrite" THEN ExportFailed("Failed to write CSV")
        ELSE IF fs = "nonutf8"
        THEN [Exported(temp_dir, file_name, csv) EXCEPT !.res = Err("Failed to get file path")]
        ELSE Exported(temp_dir, file_name, csv)

\* ---- download_csv ----
csv_header_fields(metrics) ==
    <<"Date">>
    \o (IF MetricOn(metrics, "unique_opens") THEN <<"Unique Opens">> ELSE <<>>)
    \o (IF MetricOn(metrics, "total_opens") THEN <<"Total Opens">> ELSE <<>>)
    \o (IF MetricOn(metrics, "total_recipients") THEN <<"Total Recipients">> ELSE <<>>)
    \o (IF MetricOn(metrics, "total_clicks") THEN <<"Total Clicks">> ELSE <<>>)
    \o (IF MetricOn(metrics, "ctr") THEN <<"CTR">> ELSE <<>>)

csv_date_range(reportData) ==
    LET range == Get(reportData, "date_range")
        start == AsStrOr(Get(range, "start_date"), "")
        end == AsStrOr(Get(range, "end_date"), "")
    IN  IF range.t # "missing" /\ start # "" /\ end # ""
        THEN start \o "_" \o end
        ELSE "unknown-dates"

csv_file_name(reportData, timestamp) ==
    LET advertiser == AsStrOr(Get(reportData, "advertiser"), "unknown-advertiser")
        newsletter_type == AsStrOr(Get(reportData, "report_type"), "unknown-type")
        clean_advertiser == ReplaceSpecial(advertiser)
    IN  clean_advertiser \o "_" \o newsletter_type \o "_" \o csv_date_range(reportData)
        \o "_" \o timestamp \o ".csv"

csv_row_fields(entry, metrics) ==
    <<AsStrOr(Get(entry, "send_date"), "N/A")>>
    \o (IF MetricOn(metrics, "unique_opens")
        THEN <<ToString(AsU64Or(Get(entry, "unique_opens"), 0))>> ELSE <<>>)
    \o (IF MetricOn(metrics, "total_opens")
        THEN <<ToString(AsU64Or(Get(entry, "total_opens"), 0))>> ELSE <<>>)
    \o (IF MetricOn(metrics, "total_recipients")
        THEN <<ToString(AsU64Or(Get(entry, "total_recipients"), 0))>> ELSE <<>>)
    \o (IF MetricOn(metrics, "total_clicks")
        THEN <<ToString(AsU64Or(Get(entry, "total_clicks"), 0))>> ELSE <<>>)
    \o (IF MetricOn(metrics, "ctr")
        THEN <<Fixed6(AsF64Or0(Get(entry, "ctr")))>> ELSE <<>>)

RECURSIVE csv_rows(_, _)
csv_rows(report_entries, metrics) ==
    IF Len(report_entries) = 0 THEN ""
    ELSE Join(csv_row_fields(Head(report_entries), metrics), ",") \o "\n"
         \o csv_rows(Tail(report_entries), metrics)

\* fs: what the file system does: "ok", "nodir" (the download directory does
\* not exist and create_dir_all fails) or "nowrite" (fs::write fails)
download_csv(file, os, reportData, timestamp, fs) ==
    LET data == Get(reportData, "data")
        metrics == Get(data, "metrics")
        loaded == load_settings(file, os)
        file_name == csv_file_name(reportData, timestamp)
        report_entries == Get(data, "report_data")
        csv == Join(csv_header_fields(metrics), ",") \o "\n"
               \o (IF report_entries.t = "arr"
                   THEN csv_rows(report_entries.v, metrics)
                   ELSE "No campaign data found\n")
    IN  IF data.t = "missing"
        THEN ExportFailed("Invalid report format: missing data field")
        ELSE IF metrics.t = "missing"
        THEN ExportFailed("Invalid report format: missing metrics")
        ELSE IF ~loaded.ok THEN ExportFailed(loaded.err)
        ELSE IF fs = "nodir" THEN ExportFailed("Failed to create download directory")
        ELSE IF fs = "nowrite" THEN ExportFailed("Failed to write CSV")
        ELSE Exported(loaded.val.download_directory, file_name, csv)

\* ------------------------------------------------------------------------
\* Inputs
\* ------------------------------------------------------------------------
SettingsVals ==
    {[mailchimp_api_key |-> "abc-us2", mailchimp_audience_id |-> DefaultAudienceId,
      advertisers |-> <<"Withum", "NJUA">>, download_directory |-> "/data/out"],
     [mailchimp_api_key |-> "", mailchimp_audience_id |-> "aud1",
      advertisers |-> <<"NJUA">>, download_directory |-> ""],
     [mailchimp_api_key |-> "k-us3", mailchimp_audience_id |-> "",
      advertisers |-> <<>>, download_directory |-> "/data/out"]}

\* a settings.json of an earlier schema version: no download_directory
LegacySettingsDoc ==
    [mailchimp_api_key |-> JStr("old"), mailchimp_audience_id |-> JStr("aud0"),
     advertisers |-> JArr(<<JStr("NJUA"), JNum(7)>>), download_directory |-> JMissing]

MetricsVals == {Metrics(TRUE, TRUE, TRUE, TRUE, TRUE),
                Metrics(TRUE, FALSE, TRUE, TRUE, FALSE)}

TrackingUrlLists ==
    {<<>>, <<"horizonblue.com">>, <<"", "horizonblue.com", "plan">>,
     <<"bad url">>, <<"https://">>}

DateRanges == {[start_date |-> "2024-01-01", end_date |-> "2024-01-31"],
               [start_date |-> "2024-01-01", end_date |-> "31/01/2024"]}

NewsletterTypes == {"HBCB", "hc"}

\* the requests.  A request that validate_tracking_urls rejects, or whose end
\* date does not parse, is rejected whatever its other fields are, and comes
\* with one choice of them; the other requests come in the four combinations
\* of newsletter type, tracking URLs and metrics in which every two values of
\* two fields meet
Requests ==
    {req \in [newsletter_type : NewsletterTypes, advertiser : {"NJUA"},
              tracking_urls : TrackingUrlLists, date_range : DateRanges,
              metrics : MetricsVals] :
        IF ~validate_tracking_urls(req.tracking_urls).ok
        THEN /\ req.newsletter_type = "HBCB"
             /\ req.metrics = default_metrics
             /\ IsYmd(req.date_range.end_date)
        ELSE IF ~IsYmd(req.date_range.end_date)
        THEN /\ req.newsletter_type = "HBCB"
             /\ req.metrics = default_metrics
        ELSE (req.metrics = default_metrics)
                <=> ((req.newsletter_type = "HBCB") <=> (Len(req.tracking_urls) = 1))}

Campaign(id, send_time, settings_doc, summary, sent) ==
    JObj([id |-> id, send_time |-> send_time, settings |-> settings_doc,
          report_summary |-> summary, emails_sent |-> sent])

Titled(title) == JObj([title |-> JStr(title)])
Summary(uo, opens) == JObj([unique_opens |-> JNum(uo), opens |-> JNum(opens)])

CampaignVals ==
    {Campaign(JStr("c1"), JStr("2024-01-15T14:00:00Z"), Titled("HBCB Weekly"),
              Summary(200, 250), JNum(1000)),
     Campaign(JStr("c2"), JStr("2024-01-08T09:30:00+02:00"), Titled("hbcb Health Care"),
              Summary(0, 0), JMissing),
     Campaign(JStr("c3"), JNum(1705737600), Titled("Weekly HC Digest"),
              Summary(50, 60), JNum(100)),
     Campaign(JNum(4), JStr("2024-01-03T08:00:00Z"), Titled("HC Briefing"),
              Summary(10, 10), JNum(10)),
     Campaign(JStr("c5"), JStr("yesterday"), Titled("HBCB archive"),
              JMissing, JNum(10)),
     Campaign(JStr("c6"), JStr("2024-01-02T08:00:00Z"), JObj([subject |-> JStr("hbcb hc")]),
              Summary(10, 10), JNum(10))}

RECURSIVE SeqsUpTo(_, _)
SeqsUpTo(S, n) ==
    IF n = 0 THEN {<<>>}
    ELSE LET shorter == SeqsUpTo(S, n - 1)
         IN  shorter \cup {Append(q, x) : q \in shorter, x \in S}

\* the campaigns arrays: the API lists each campaign once
CampaignLists ==
    {q \in SeqsUpTo(CampaignVals, MaxCampaigns) :
        \A i, j \in 1..Len(q) : i # j => q[i] # q[j]}

JsonBody(doc) == [json |-> TRUE, doc |-> doc]
TextBody(text) == [json |-> FALSE, text |-> text]
GarbageBody == TextBody("<html>")

\* no answer to the campaigns request is held
NotReceived == [kind |-> "none"]
HttpResponse(status, body) == [kind |-> "http", status |-> status, body |-> body]
NetworkError == [kind |-> "neterr"]

CampaignsResponses ==
    {NetworkError, HttpResponse(401, TextBody("API Key Invalid")),
     HttpResponse(503, GarbageBody), HttpResponse(200, GarbageBody),
     HttpResponse(200, JsonBody(JObj([total_items |-> JNum(0)])))}
    \cup {HttpResponse(200, JsonBody(JObj([campaigns |-> JArr(cs)]))) :
             cs \in CampaignLists}

UrlItem(url, clicks) == JObj([url |-> JStr(url), total_clicks |-> JNum(clicks)])

ClickResponses ==
    {NetworkError, HttpResponse(200, GarbageBody),
     HttpResponse(500, JsonBody(JObj([urls_clicked |-> JArr(
         <<UrlItem("https://www.horizonblue.com/plan", 20)>>)]))),
     HttpResponse(200, JsonBody(JObj([urls_clicked |-> JArr(
         <<UrlItem("https://www.horizonblue.com/plan", 20),
           UrlItem("https://example.org/", 5)>>)]))),
     HttpResponse(200, JsonBody(JObj([urls_clicked |-> JArr(
         <<UrlItem("https://example.org/", 5)>>)])))}

SampleEntry ==
    JObj([send_date |-> JStr("2023-12-05"), unique_opens |-> JNum(40),
          total_opens |-> JNum(50), total_recipients |-> JNum(90),
          total_clicks |-> JNum(4), ctr |-> JNum([num |-> 400, den |-> 40])])

\* reports the front end hands to save_report
ReportVals ==
    {[id |-> "report-1", name |-> "NJUA-HBCB-2023-12-31", advertiser |-> "NJUA",
      report_type |-> "HBCB",
      date_range |-> [start_date |-> "2023-12-01", end_date |-> "2023-12-31"],
      created |-> "2023-12-31",
      data |-> final_report(<<>>, <<SampleEntry>>, Metrics(TRUE, FALSE, TRUE, TRUE, FALSE)),
      metrics |-> Metrics(TRUE, FALSE, TRUE, TRUE, FALSE)],
     [id |-> "report-x", name |-> "Withum-hc-2023-11-30", advertiser |-> "Withum",
      report_type |-> "hc",
      date_range |-> [start_date |-> "2023-11-01", end_date |-> "2023-11-30"],
      created |-> "2023-11-30",
      data |-> JNull,
      metrics |-> default_metrics]}

\* an element of reports.json written before SavedReport had a metrics field
LegacyReportDoc ==
    [id |-> JStr("report-0"), name |-> JStr("old"), advertiser |-> JStr("NJUA"),
     report_type |-> JStr("HBCB"),
     date_range |-> DateRangeToJson([start_date |-> "2023-01-01", end_date |-> "2023-01-31"]),
     created |-> JStr("2023-01-31"),
     data |-> JObj([report_data |-> JArr(<<SampleEntry>>)]),
     metrics |-> JMissing]

ReportIds == {"report-0", "report-1", "report-x", "report-9"}

\* chrono::Local::now().format("%Y%m%d_%H%M%S") at the clock value ms
local_timestamp(ms) == "20240201_12000" \o ToString(ms)

\* report values the front end hands to the export commands besides the stored
\* ones: a full report with every column, one without metadata whose flags
\* and entries have other types, and one without a data member
OtherReportValues ==
    {JObj(ReportToJson(
        [id |-> "report-7", name |-> "w", advertiser |-> "NJ American Water",
         report_type |-> "HBCB",
         date_range |-> [start_date |-> "2023-10-01", end_date |-> "2023-10-31"],
         created |-> "2023-10-31",
         data |-> final_report(<<>>,
                     <<SampleEntry,
                       JObj([total_clicks |-> JNum(3), unique_opens |-> JStr("9"),
                             ctr |-> JNum([num |-> 100, den |-> 3])])>>,
                     default_metrics),
         metrics |-> default_metrics])),
     JObj([data |-> JObj([metrics |-> JObj([unique_opens |-> JBool(TRUE),
                                            ctr |-> JStr("yes")]),
                          report_data |-> JNull]),
           date_range |-> JObj([start_date |-> JStr("2023-10-01")])]),
     JObj([name |-> JStr("no data")])}

\* the SavedReports of the store as load_reports hands them to the front end
StoredReportValues(file) ==
    IF load_reports(file).ok
    THEN {JObj(ReportToJson(load_reports(file).val[i])) :
             i \in 1..Len(load_reports(file).val)}
    ELSE {}

\* ------------------------------------------------------------------------
\* Initial state
\* ------------------------------------------------------------------------
\* the ids of the tasks of SpecOverlap
Tasks == {1, 2}

NoRequest ==
    [newsletter_type |-> "", advertiser |-> "", tracking_urls |-> <<>>,
     date_range |-> EmptyDateRange, metrics |-> default_metrics]

\* no generation in flight: the task's locals do not exist
NoGeneration ==
    /\ pc = "idle"
    /\ request = NoRequest
    /\ settings = Err("not loaded")
    /\ progress_updates = <<>>
    /\ events = <<>>
    /\ emit_failed = FALSE
    /\ http = <<>>
    /\ filtered_campaigns = <<>>
    /\ index = 0
    /\ report_data = <<>>
    /\ store_before = Absent
    /\ campaigns_response = NotReceived
    /\ click_response = NotReceived
    /\ response = NoResponse
    /\ tasks = [t \in Tasks |-> [pc |-> "start"]]

Init ==
    /\ settings_file \in {Absent, Garbage, JsonFile(LegacySettingsDoc)}
    /\ reports_file \in {Absent, Garbage, JsonFile(<<LegacyReportDoc>>)}
    /\ now = 1
    /\ last = [op |-> "none"]
    /\ NoGeneration

\* the number of elements reports.json holds
StoreSize == IF reports_file.kind = "json" THEN Len(reports_file.doc) ELSE 0

\* ------------------------------------------------------------------------
\* Store commands.  A behaviour is any sequence of store commands followed
\* by one generation: commands are dispatched one at a time (the front end
\* awaits each), and a generation depends on earlier ones only through
\* reports.json, whose possible contents the store commands produce.
\* ------------------------------------------------------------------------
SaveSettings(s, io_ok) ==
    /\ pc = "idle"
    /\ LET r == save_settings(settings_file, s, io_ok)
       IN  /\ settings_file' = r.file
           /\ last' = [op |-> "save_settings", arg |-> s, res |-> r.res]
    /\ UNCHANGED <<reports_file, now, genVars>>

LoadSettings(os) ==
    /\ pc = "idle"
    /\ last' = [op |-> "load_settings", res |-> load_settings(settings_file, os)]
    /\ UNCHANGED <<settings_file, reports_file, now, genVars>>

SaveReport(r, io_ok) ==
    /\ pc = "idle"
    /\ StoreSize < MaxReports
    /\ LET w == save_report(reports_file, r, io_ok)
       IN  /\ reports_file' = w.file
           /\ last' = [op |-> "save_report", arg |-> r, res |-> w.res,
                       before |-> reports_file]
    /\ UNCHANGED <<settings_file, now, genVars>>

LoadReports ==
    /\ pc = "idle"
    /\ last' = [op |-> "load_reports", res |-> load_reports(reports_file)]
    /\ UNCHANGED <<settings_file, reports_file, now, genVars>>

DeleteReport(id, io_ok) ==
    /\ pc = "idle"
    /\ LET w == delete_report(reports_file, id, io_ok)
       IN  /\ reports_file' = w.file
           /\ last' = [op |-> "delete_report", arg |-> id, res |-> w.res,
                       before |-> reports_file, io_ok |-> io_ok,
                       after_save |-> (last.op = "save_report" /\ last.res.ok)]
    /\ UNCHANGED <<settings_file, now, genVars>>

DownloadCsv(reportData, os, fs) ==
    /\ pc = "idle"
    /\ LET x == download_csv(settings_file, os, reportData, local_timestamp(now), fs)
       IN  last' = [op |-> "download_csv", arg |-> reportData, res |-> x.res,
                    written |-> x.written]
    /\ UNCHANGED <<settings_file, reports_file, now, genVars>>

OpenReportInExcel(reportData, fs) ==
    /\ pc = "idle"
    /\ LET x == open_report_in_excel(reportData, local_timestamp(now), fs)
       IN  last' = [op |-> "open_report_in_excel", arg |-> reportData, res |-> x.res,
                    written |-> x.written]
    /\ UNCHANGED <<settings_file, reports_file, now, genVars>>

\* the millisecond clock advances; generate_report reads it only when it
\* builds the SavedReport, so the advance is taken where it can be observed
Tick ==
    /\ now < MaxClock
    /\ pc = "loop" /\ index = Len(filtered_campaigns) /\ Len(report_data) > 0
    /\ now' = now + 1
    /\ UNCHANGED <<settings_file, reports_file, last, genVars>>

\* ------------------------------------------------------------------------
\* generate_report
\* ------------------------------------------------------------------------
U_init == <<ProgressUpdate("Initializing", 0)>>
\* mutant of U_connecting: nothing is emitted before the end date is parsed
U_connecting_none == <<>>
U_connecting == <<ProgressUpdate("FetchingCampaigns", 10)>>
\* mutant of U_fetching: nothing is emitted between the parse and the request
U_fetching_none == <<>>
U_fetching == <<ProgressUpdate("FetchingCampaigns", 20)>>
U_filtering == <<ProgressUpdate("FilteringCampaigns", 30)>>
U_processing == <<ProgressUpdate("ProcessingCampaigns", 40)>>
\* mutant of U_finalizing: the update carries the stage name of the next one
U_finalizing_as_saving == <<ProgressUpdate("SavingReport", 80)>>
U_finalizing == <<ProgressUpdate("FinalizingReport", 80)>>
U_saving == <<ProgressUpdate("SavingReport", 90)>>
U_complete == <<ProgressUpdate("Complete", 100)>>

\* mutant of success_events: Complete is emitted before report-generated
success_events_complete_first(report) ==
    ProgressEvents(U_complete)
    \o <<[name |-> "report-generated", payload |-> [report |-> report]]>>

\* what generate_report emits once save_report has returned Ok
success_events(report) ==
    <<[name |-> "report-generated", payload |-> [report |-> report]]>>
    \o ProgressEvents(U_complete)

\* mutant of Pushed: an update whose emission failed is left out
Pushed_when_heard(ups, heard) == IF heard THEN ups ELSE <<>>

\* progress_updates.push(update.clone()) before each app.emit: the updates
\* go into the history whether app.emit then returns Ok (heard) or Err
Pushed(ups, heard) == ups

\* "if let Err(e) = app.emit(..) { println!(..) }": a failed emission is
\* printed, and nothing of the generation reads the result
Observer(heard) == emit_failed' = (emit_failed \/ ~heard)

\* the command returns: nothing more of this generation runs
Finish(ups, evs, resp) ==
    /\ pc' = "done"
    /\ progress_updates' = ups
    /\ events' = evs
    /\ response' = resp

\* entry of generate_report up to the first suspension point
GenerateReport(req, os, heard) ==
    /\ pc = "idle"
    /\ request' = req
    /\ StoreSize < MaxReports
    /\ last' = [op |-> "generate_report"]
    /\ store_before' = reports_file
    /\ filtered_campaigns' = <<>>
    /\ index' = 0
    /\ report_data' = <<>>
    /\ campaigns_response' = NotReceived
    /\ click_response' = NotReceived
    /\ LET loaded == load_settings(settings_file, os)
           ups0 == Pushed(U_init, heard)
           ups1 == ups0 \o Pushed(U_connecting, heard)
           ups2 == ups1 \o Pushed(U_fetching, heard)
       IN  IF ~validate_tracking_urls(req.tracking_urls).ok
           THEN /\ Finish(<<>>, <<>>, ErrResponse(validate_tracking_urls(req.tracking_urls).err))
                /\ settings' = Err("not loaded")
                /\ http' = <<>>
           ELSE IF ~loaded.ok
           THEN /\ Finish(ups0, ProgressEvents(U_init), ErrResponse(loaded.err))
                /\ settings' = loaded
                /\ http' = <<>>
           ELSE IF Unconfigured(loaded.val)
           THEN /\ Finish(ups0, ProgressEvents(U_init),
                          ReportResponse(FALSE, "Mailchimp API settings not configured",
                                         JNull, ups0))
                /\ settings' = loaded
                /\ http' = <<>>
           ELSE IF ~IsYmd(req.date_range.end_date)
           THEN /\ Finish(ups1, ProgressEvents(U_init \o U_connecting), ErrResponse("Failed to parse end date"))
                /\ settings' = loaded
                /\ http' = <<>>
           ELSE /\ pc' = "await_campaigns"
                /\ progress_updates' = ups2
                /\ events' = ProgressEvents(U_init \o U_connecting \o U_fetching)
                /\ response' = NoResponse
                /\ settings' = loaded
                /\ http' = <<[url |-> base_url(loaded.val.mailchimp_api_key) \o "/campaigns",
                              since_send_time |-> req.date_range.start_date \o "T00:00:00Z",
                              before_send_time |-> req.date_range.end_date \o "T23:59:59Z",
                              emitted |-> Len(U_init \o U_connecting \o U_fetching)]>>
    /\ UNCHANGED <<settings_file, reports_file, now, tasks>>

\* the campaigns request returns; validation, filtering, entry to the loop
CampaignsResponse(resp, heard) ==
    /\ pc = "await_campaigns"
    /\ campaigns_response' = resp
    /\ LET ups3 == progress_updates \o Pushed(U_filtering \o U_processing, heard)
           body == resp.body
           campaigns == Get(body.doc, "campaigns")
       IN  IF resp.kind = "neterr"
           THEN /\ Finish(progress_updates, events, ErrResponse("Failed to fetch campaigns"))
                /\ UNCHANGED filtered_campaigns
           ELSE IF resp.status \notin 200..299
           THEN /\ Finish(progress_updates, events,
                          ReportResponse(FALSE, api_error_message(body.text),
                                         JNull, progress_updates))
                /\ UNCHANGED filtered_campaigns
           ELSE IF ~body.json
           THEN /\ Finish(progress_updates, events,
                          ErrResponse("Failed to parse campaigns response"))
                /\ UNCHANGED filtered_campaigns
           ELSE IF campaigns.t # "arr"
           THEN /\ Finish(progress_updates, events,
                          ReportResponse(FALSE, "No campaigns found in response",
                                         JNull, progress_updates))
                /\ UNCHANGED filtered_campaigns
           ELSE IF ~validate_campaign_data(campaigns.v, request.newsletter_type).ok
           THEN /\ Finish(progress_updates, events,
                          ErrResponse(validate_campaign_data(campaigns.v,
                                                             request.newsletter_type).err))
                /\ UNCHANGED filtered_campaigns
           ELSE /\ pc' = "loop"
                /\ progress_updates' = ups3
                /\ events' = events \o ProgressEvents(U_filtering \o U_processing)
                /\ filtered_campaigns' = FilterCampaigns(campaigns.v, request.newsletter_type)
                /\ UNCHANGED response
    /\ UNCHANGED <<storeVars, request, settings, http, index, report_data, store_before,
                   click_response, tasks>>

\* head of one loop iteration: the per-campaign update, then skip or request
ProcessCampaign(heard) ==
    /\ pc = "loop"
    /\ index < Len(filtered_campaigns)
    /\ LET campaign == filtered_campaigns[index + 1]
           up == <<ProgressUpdate("ProcessingCampaigns",
                                  current_progress(index, Len(filtered_campaigns)))>>
       IN  /\ progress_updates' = progress_updates \o Pushed(up, heard)
           /\ events' = events \o ProgressEvents(up)
           /\ IF Skipped(campaign)
              THEN /\ index' = index + 1
                   /\ UNCHANGED <<pc, http>>
              ELSE /\ pc' = "await_clicks"
                   /\ http' = Append(http,
                          [url |-> base_url(settings.val.mailchimp_api_key) \o "/reports/"
                                   \o Get(campaign, "id").v \o "/click-details",
                           emitted |-> Len(progress_updates) + 1])
                   /\ UNCHANGED index
    /\ campaigns_response' = NotReceived
    /\ click_response' = NotReceived
    /\ UNCHANGED <<storeVars, request, settings, filtered_campaigns, report_data,
                   store_before, response, tasks>>

\* mutant of ClickResponse: a request that failed to connect is made again
ClickResponse_retry(resp) ==
    /\ pc = "await_clicks"
    /\ click_response' = resp
    /\ LET campaign == filtered_campaigns[index + 1]
           clicks == ad_clicks(resp, request.tracking_urls)
       IN  report_data' = IF IncludeEntry(clicks)
                          THEN Append(report_data, campaign_report(campaign, clicks))
                          ELSE report_data
    /\ index' = IF resp.kind = "neterr" THEN index ELSE index + 1
    /\ pc' = "loop"
    /\ UNCHANGED <<storeVars, request, settings, progress_updates, events, emit_failed,
                   http, filtered_campaigns, store_before, campaigns_response, response,
                   tasks>>

\* the click-details request returns; the rest of the loop iteration
ClickResponse(resp) ==
    /\ pc = "await_clicks"
    /\ click_response' = resp
    /\ LET campaign == filtered_campaigns[index + 1]
           clicks == ad_clicks(resp, request.tracking_urls)
       IN  report_data' = IF IncludeEntry(clicks)
                          THEN Append(report_data, campaign_report(campaign, clicks))
                          ELSE report_data
    /\ index' = index + 1
    /\ pc' = "loop"
    /\ UNCHANGED <<storeVars, request, settings, progress_updates, events, emit_failed,
                   http, filtered_campaigns, store_before, campaigns_response, response,
                   tasks>>

\* after the loop: post-check, sort, save_report, report-generated, Complete
Finalize(io_ok, heard) ==
    /\ pc = "loop"
    /\ index = Len(filtered_campaigns)
    /\ IF Len(report_data) = 0
       THEN /\ Finish(progress_updates, events,
                      ReportResponse(FALSE, no_data_message(request.newsletter_type),
                                     JNull, progress_updates))
            /\ UNCHANGED <<reports_file, report_data>>
       ELSE LET sorted == sort_by_date(report_data)
                data == final_report(filtered_campaigns, sorted, request.metrics)
                report == new_report(request, data, now)
                w == save_report(reports_file, report, io_ok)
                ups == progress_updates \o Pushed(U_finalizing \o U_saving, heard)
                evs == events \o ProgressEvents(U_finalizing \o U_saving)
            IN  /\ report_data' = sorted
                /\ reports_file' = w.file
                /\ IF ~w.res.ok
                   THEN Finish(ups, evs, ErrResponse(w.res.err))
                   ELSE Finish(ups \o Pushed(U_complete, heard),
                               evs \o success_events(report),
                               ReportResponse(TRUE, "Report generated successfully",
                                              data, ups \o Pushed(U_complete, heard)))
    /\ campaigns_response' = NotReceived
    /\ click_response' = NotReceived
    /\ UNCHANGED <<settings_file, now, last, request, settings, http,
                   filtered_campaigns, index, store_before, tasks>>

Next ==
    \/ \E s \in SettingsVals, io_ok \in BOOLEAN : SaveSettings(s, io_ok)
    \/ \E os \in OsDirs : LoadSettings(os)
    \/ \E r \in ReportVals, io_ok \in BOOLEAN : SaveReport(r, io_ok)
    \/ LoadReports
    \/ \E id \in ReportIds, io_ok \in BOOLEAN : DeleteReport(id, io_ok)
    \/ \E reportData \in StoredReportValues(reports_file) \cup OtherReportValues,
          os \in OsDirs, fs \in {"ok", "nodir", "nowrite"} :
          DownloadCsv(reportData, os, fs)
    \/ \E reportData \in StoredReportValues(reports_file) \cup OtherReportValues,
          fs \in {"ok", "nowrite", "nonutf8"} :
          OpenReportInExcel(reportData, fs)
    \/ Tick
    \/ \E req \in Requests, os \in OsDirs :
          GenerateReport(req, os, TRUE) /\ Observer(TRUE)
    \/ \E resp \in CampaignsResponses :
          CampaignsResponse(resp, TRUE) /\ Observer(TRUE)
    \/ ProcessCampaign(TRUE) /\ Observer(TRUE)
    \/ \E resp \in ClickResponses : ClickResponse(resp)
    \/ \E io_ok \in BOOLEAN : Finalize(io_ok, TRUE) /\ Observer(TRUE)

Spec == Init /\ [][Next]_vars

\* ------------------------------------------------------------------------
\* One generation, run to its end.  The task is polled until it returns:
\* whenever a request of the generation is in flight its answer (or a
\* connection error) arrives, and the code between two suspension points
\* runs without waiting for anything.
\* ------------------------------------------------------------------------
\* the next step of the generation in flight; the clock is not its to move
GenStep ==
    /\ now' = now
    /\ \/ \E resp \in CampaignsResponses :
             CampaignsResponse(resp, TRUE) /\ Observer(TRUE)
       \/ ProcessCampaign(TRUE) /\ Observer(TRUE)
       \/ \E resp \in ClickResponses : ClickResponse(resp)
       \/ \E io_ok \in BOOLEAN :
             Finalize(io_ok, TRUE) /\ Observer(TRUE)

NextRun ==
    \/ \E req \in Requests, os \in OsDirs :
          GenerateReport(req, os, TRUE) /\ Observer(TRUE)
    \/ GenStep
    \/ Tick

SpecRun == Init /\ [][NextRun]_vars /\ WF_vars(GenStep)

\* ------------------------------------------------------------------------
\* One generation with its observer.  Every app.emit of generate_report may
\* return Err; here the history variable emit_failed keeps whether one did.
\* ------------------------------------------------------------------------
NextObserver ==
    \/ \E req \in Requests, os \in OsDirs, heard \in BOOLEAN :
          GenerateReport(req, os, heard) /\ Observer(heard)
    \/ \E resp \in CampaignsResponses, heard \in BOOLEAN :
          CampaignsResponse(resp, heard) /\ Observer(heard)
    \/ \E heard \in BOOLEAN : ProcessCampaign(heard) /\ Observer(heard)
    \/ \E resp \in ClickResponses : ClickResponse(resp)
    \/ \E io_ok \in BOOLEAN, heard \in BOOLEAN : Finalize(io_ok, heard) /\ Observer(heard)

SpecObserver == Init /\ [][NextObserver]_vars

\* ------------------------------------------------------------------------
\* Two generations at once.  generate_report is an async command: Tauri spawns
\* each invocation on its multi-threaded runtime, so two invocations run in
\* parallel.  Up to the SavedReport a generation touches nothing the other
\* one sees; a task starts here where it has its entries.  save_report is a
\* read of reports.json followed by a write, with no lock around the two.
\* ------------------------------------------------------------------------
TaskRequests ==
    {[newsletter_type |-> "HBCB", advertiser |-> "NJUA",
      tracking_urls |-> <<"horizonblue.com">>,
      date_range |-> [start_date |-> "2024-01-01", end_date |-> "2024-01-31"],
      metrics |-> m] : m \in MetricsVals}

\* the entries of a generation whose one campaign had 20 ad clicks
TaskEntries ==
    <<campaign_report(Campaign(JStr("c1"), JStr("2024-01-15T14:00:00Z"),
                               Titled("HBCB Weekly"), Summary(200, 250), JNum(1000)), 20)>>

InitOverlap ==
    /\ settings_file = Absent
    /\ reports_file \in {Absent, Garbage, JsonFile(<<LegacyReportDoc>>)}
    /\ now = 1
    /\ last = [op |-> "none"]
    /\ pc = "idle"
    /\ request = NoRequest
    /\ settings = Err("not loaded")
    /\ progress_updates = <<>>
    /\ events = <<>>
    /\ emit_failed = FALSE
    /\ http = <<>>
    /\ filtered_campaigns = <<>>
    /\ index = 0
    /\ report_data = <<>>
    /\ store_before = reports_file
    /\ campaigns_response = NotReceived
    /\ click_response = NotReceived
    /\ response = NoResponse
    /\ tasks = [t \in Tasks |-> [pc |-> "start"]]

otherVars == <<settings_file, last, pc, request, settings, progress_updates, events,
               emit_failed, http,
               filtered_campaigns, index, report_data, store_before, campaigns_response,
               click_response, response>>

\* the task builds its SavedReport: the clock is read for the id
TaskBuild(t, req) ==
    /\ tasks[t].pc = "start"
    /\ tasks' = [tasks EXCEPT ![t] =
                    [pc |-> "built",
                     report |-> new_report(req, final_report(<<>>, TaskEntries, req.metrics),
                                           now)]]
    /\ UNCHANGED <<reports_file, now, otherVars>>

\* save_report, first half: load_reports reads reports.json
TaskLoad(t) ==
    /\ tasks[t].pc = "built"
    /\ LET loaded == load_reports(reports_file)
       IN  tasks' = [tasks EXCEPT ![t] =
                        IF loaded.ok
                        THEN [pc |-> "loaded", report |-> tasks[t].report,
                              reports |-> Append(loaded.val, tasks[t].report)]
                        ELSE [pc |-> "failed", err |-> loaded.err]]
    /\ UNCHANGED <<reports_file, now, otherVars>>

\* save_report, second half: fs::write of the pushed vector
TaskWrite(t, io_ok) ==
    /\ tasks[t].pc = "loaded"
    /\ IF io_ok
       THEN /\ reports_file' = JsonFile(ReportsToJson(tasks[t].reports))
            /\ tasks' = [tasks EXCEPT ![t] = [pc |-> "saved", report |-> tasks[t].report]]
       ELSE /\ tasks' = [tasks EXCEPT ![t] = [pc |-> "failed",
                                              err |-> "Failed to write reports"]]
            /\ UNCHANGED reports_file
    /\ UNCHANGED <<now, otherVars>>

\* the generation completes: report-generated, Complete, the success response
TaskReturn(t) ==
    /\ tasks[t].pc = "saved"
    /\ tasks' = [tasks EXCEPT ![t] =
                    [pc |-> "done", report |-> tasks[t].report,
                     finished |-> 1 + Cardinality({u \in Tasks : tasks[u].pc = "done"})]]
    /\ UNCHANGED <<reports_file, now, otherVars>>

\* the millisecond clock advances while a task has yet to read it
TaskTick ==
    /\ now < MaxClock
    /\ \E t \in Tasks : tasks[t].pc = "start"
    /\ now' = now + 1
    /\ UNCHANGED <<reports_file, tasks, otherVars>>

NextOverlap ==
    \/ \E t \in Tasks, req \in TaskRequests : TaskBuild(t, req)
    \/ \E t \in Tasks : TaskLoad(t)
    \/ \E t \in Tasks, io_ok \in BOOLEAN : TaskWrite(t, io_ok)
    \/ \E t \in Tasks : TaskReturn(t)
    \/ TaskTick

SpecOverlap == InitOverlap /\ [][NextOverlap]_vars

\* ------------------------------------------------------------------------
\* A long loop.  The campaigns request asks for up to 1000 campaigns, and the
\* progress of the loop depends on how many of them pass the filter.  A
\* generation starts here where it enters the loop; every fetched campaign
\* has passed the filter, and every click-details request fails to connect.
\* ------------------------------------------------------------------------
LongLoopSizes == {7, 154}

LongCampaigns(n) ==
    [k \in 1..n |-> Campaign(JStr("c" \o ToString(k)), JStr("2024-01-15T14:00:00Z"),
                             Titled("HBCB Weekly"), Summary(200, 250), JNum(1000))]

InitLongLoop ==
    /\ settings_file = JsonFile(LegacySettingsDoc)
    /\ reports_file = Absent
    /\ now = 1
    /\ last = [op |-> "generate_report"]
    /\ pc = "loop"
    /\ request = [newsletter_type |-> "HBCB", advertiser |-> "NJUA",
                  tracking_urls |-> <<"horizonblue.com">>,
                  date_range |-> [start_date |-> "2024-01-01", end_date |-> "2024-01-31"],
                  metrics |-> default_metrics]
    /\ \E os \in OsDirs :
          /\ load_settings(settings_file, os).ok
          /\ settings = load_settings(settings_file, os)
    /\ progress_updates = U_init \o U_connecting \o U_fetching \o U_filtering
                             \o U_processing
    /\ events = ProgressEvents(progress_updates)
    /\ emit_failed = FALSE
    /\ http = <<[url |-> base_url(settings.val.mailchimp_api_key) \o "/campaigns",
                 since_send_time |-> request.date_range.start_date \o "T00:00:00Z",
                 before_send_time |-> request.date_range.end_date \o "T23:59:59Z",
                 emitted |-> 3]>>
    /\ \E n \in LongLoopSizes :
          /\ campaigns_response = HttpResponse(200,
                 JsonBody(JObj([campaigns |-> JArr(LongCampaigns(n))])))
          /\ filtered_campaigns = LongCampaigns(n)
    /\ index = 0
    /\ report_data = <<>>
    /\ store_before = Absent
    /\ click_response = NotReceived
    /\ response = NoResponse
    /\ tasks = [t \in Tasks |-> [pc |-> "start"]]

NextLongLoop ==
    \/ ProcessCampaign(TRUE) /\ Observer(TRUE)
    \/ ClickResponse(NetworkError)
    \/ \E io_ok \in BOOLEAN : Finalize(io_ok, TRUE) /\ Observer(TRUE)

SpecLongLoop == InitLongLoop /\ [][NextLongLoop]_vars

\* ------------------------------------------------------------------------
\* Properties
\* ------------------------------------------------------------------------
\* the payloads of the report-progress events emitted so far
RECURSIVE ProgressOf(_)
ProgressOf(evs) ==
    IF Len(evs) = 0 THEN <<>>
    ELSE (IF Head(evs).name = "report-progress" THEN <<Head(evs).payload>> ELSE <<>>)
         \o ProgressOf(Tail(evs))

Succeeded == pc = "done" /\ response.st = "ok" /\ response.success

\* what load_reports returns now, and the report a successful generation saved
StoredReports == load_reports(reports_file).val
PersistedReport == StoredReports[Len(StoredReports)]

\* C1: the progress values emitted in one generation never decrease, and the
\* last emitted value is 100 exactly when the generation returns success=true
C1_ProgressMonotone ==
    LET ups == ProgressOf(events)
    IN  /\ \A i \in 1..(Len(ups) - 1) : ups[i].progress <= ups[i + 1].progress
        /\ pc = "done" =>
              ((Len(ups) > 0 /\ ups[Len(ups)].progress = 100) <=> Succeeded)

C1_Witness ==
    /\ Succeeded
    /\ Len(filtered_campaigns) = 2
    /\ Len(ProgressOf(events)) = 10

StageOrder ==
    <<"Initializing", "FetchingCampaigns", "FilteringCampaigns", "ProcessingCampaigns",
      "FinalizingReport", "SavingReport", "Complete">>

StageRank(stage) == CHOOSE k \in 1..Len(StageOrder) : StageOrder[k] = stage

\* C2: the stages of the emitted updates follow the fixed order: no stage
\* after a later one, and a stage only after every earlier stage was emitted
C2_StageOrder ==
    LET ups == ProgressOf(events)
    IN  /\ \A i \in 1..Len(ups) : ups[i].stage \in {StageOrder[k] : k \in 1..Len(StageOrder)}
        /\ \A i \in 1..(Len(ups) - 1) : StageRank(ups[i].stage) <= StageRank(ups[i + 1].stage)
        /\ \A i \in 1..Len(ups) : \A r \in 1..(StageRank(ups[i].stage) - 1) :
              \E j \in 1..(i - 1) : StageRank(ups[j].stage) = r

C2_Witness ==
    /\ Succeeded
    /\ {ProgressOf(events)[i].stage : i \in 1..Len(ProgressOf(events))}
          = {StageOrder[k] : k \in 1..Len(StageOrder)}

\* C3: a generation that succeeds appends exactly one SavedReport to the
\* store; until then, and when it ends any other way, the store is as it was
\* when the generation started
C3_AppendOnce ==
    /\ pc \notin {"idle", "done"} => reports_file = store_before
    /\ (pc = "done" /\ ~Succeeded) => reports_file = store_before
    /\ Succeeded =>
          /\ load_reports(store_before).ok
          /\ load_reports(reports_file).ok
          /\ Len(StoredReports) = Len(load_reports(store_before).val) + 1
          /\ SubSeq(StoredReports, 1, Len(StoredReports) - 1) = load_reports(store_before).val
          /\ PersistedReport.data = response.data

C3_Witness ==
    /\ Succeeded
    /\ store_before.kind = "json"
    /\ Len(StoredReports) = 2

\* C4: no two SavedReports in the store have the same identifier
C4_UniqueIds ==
    load_reports(reports_file).ok =>
        \A i, j \in 1..Len(StoredReports) :
            i # j => StoredReports[i].id # StoredReports[j].id

\* C5: after save_report(r) the list load_reports returns contains r; a
\* delete_report(r.id) that follows it does not fail to parse the document,
\* and after a delete_report(id) no stored report has that id
C5_SaveDeleteRoundTrip ==
    /\ (last.op = "save_report" /\ last.res.ok) =>
          /\ load_reports(reports_file).ok
          /\ \E i \in 1..Len(StoredReports) : StoredReports[i] = last.arg
    /\ (last.op = "delete_report" /\ last.after_save /\ last.io_ok) => last.res.ok
    /\ (last.op = "delete_report" /\ last.res.ok) =>
          /\ load_reports(reports_file).ok
          /\ \A i \in 1..Len(StoredReports) : StoredReports[i].id # last.arg

C5_Witness ==
    /\ last.op = "delete_report" /\ last.after_save /\ last.res.ok
    /\ last.before.kind = "json" /\ Len(last.before.doc) = 2
    /\ \E i \in 1..2 : last.before.doc[i].id.v = last.arg
    /\ Len(StoredReports) = 1

\* C6 as stated: after save_settings(s) succeeds, load_settings returns s
C6_RoundTripAnySettings ==
    (last.op = "save_settings" /\ last.res.ok) =>
        \A os \in OsDirs : load_settings(settings_file, os) = Ok(last.arg)

\* C6 amended: after save_settings(s) succeeds, load_settings returns s when
\* the download directory of s is not empty; when it is empty, load_settings
\* returns s with the OS default download directory in its place, or fails
\* when the OS reports neither a download nor a home directory
C6_RoundTrip ==
    (last.op = "save_settings" /\ last.res.ok) =>
        \A os \in OsDirs :
            IF last.arg.download_directory # ""
            THEN load_settings(settings_file, os) = Ok(last.arg)
            ELSE IF default_download_dir(os).ok
            THEN load_settings(settings_file, os)
                    = Ok([last.arg EXCEPT !.download_directory = default_download_dir(os).val])
            ELSE ~load_settings(settings_file, os).ok

C6_Witness ==
    /\ last.op = "save_settings" /\ last.res.ok
    /\ last.arg.download_directory # ""
    /\ Len(last.arg.advertisers) = 2

\* the entries of a report document
EntriesOf(data) == Get(data, "report_data").v

\* every place a generation holds entries: the vector being built, the
\* response and the persisted report
AllEntries ==
    {report_data[i] : i \in 1..Len(report_data)}
    \cup (IF Succeeded
          THEN {EntriesOf(response.data)[i] : i \in 1..Len(EntriesOf(response.data))}
               \cup {EntriesOf(PersistedReport.data)[i] :
                        i \in 1..Len(EntriesOf(PersistedReport.data))}
          ELSE {})

\* the filtered campaigns whose click-details were requested and answered
Answered == {i \in 1..index : ~Skipped(filtered_campaigns[i])}

\* C7: every entry of report_data has total_clicks > 0
C7_PositiveClicks ==
    /\ \A e \in AllEntries : Get(e, "total_clicks").v > 0
    /\ Len(report_data) <= Cardinality(Answered)

C7_Witness ==
    /\ Succeeded
    /\ Cardinality(Answered) = 2
    /\ Len(report_data) = 1

SortedByDate(entries) ==
    \A i \in 1..(Len(entries) - 1) : StrLeq(SendDate(entries[i]), SendDate(entries[i + 1]))

\* C9: after a successful generation the entries of report_data are in
\* ascending order of send_date, in the response and in the persisted report
C9_SortedByDate ==
    Succeeded =>
        /\ SortedByDate(EntriesOf(response.data))
        /\ SortedByDate(EntriesOf(PersistedReport.data))

C9_Witness ==
    /\ Succeeded
    /\ Len(filtered_campaigns) = 2
    /\ Len(EntriesOf(response.data)) = 2
    /\ StrLess(formatted_date(Get(filtered_campaigns[2], "send_time").v),
               formatted_date(Get(filtered_campaigns[1], "send_time").v))

\* C10: the MetricSelection of the persisted SavedReport, and the one inside
\* its data document, equal the MetricSelection of the request
C10_MetricsKept ==
    Succeeded =>
        /\ PersistedReport.metrics = request.metrics
        /\ MetricsDecodeOk(Get(PersistedReport.data, "metrics"))
        /\ MetricsDecode(Get(PersistedReport.data, "metrics")) = request.metrics

C10_Witness ==
    /\ Succeeded
    /\ request.metrics # default_metrics
    /\ PersistedReport.metrics = request.metrics

\* the stages of the progress history a response carries
StagesOf(ups) == {ups[i].stage : i \in 1..Len(ups)}

\* no request for click details was made
NoClickRequest == \A i \in 1..Len(http) : ~Contains(http[i].url, "/click-details")

\* C11: with valid tracking URLs and a loaded Settings whose credential or
\* audience id is empty, generate_report returns a response with success=false,
\* the message "Mailchimp API settings not configured", no data and a progress
\* history of exactly the Initializing update; no HTTP request is made and
\* nothing is persisted
C11_Unconfigured ==
    (/\ pc = "done"
     /\ validate_tracking_urls(request.tracking_urls).ok
     /\ settings.ok
     /\ (settings.val.mailchimp_api_key = "" \/ settings.val.mailchimp_audience_id = ""))
    => /\ response = ReportResponse(FALSE, "Mailchimp API settings not configured", JNull,
                                    <<ProgressUpdate("Initializing", 0)>>)
       /\ ProgressOf(events) = <<ProgressUpdate("Initializing", 0)>>
       /\ http = <<>>
       /\ reports_file = store_before

C11_Witness ==
    /\ pc = "done"
    /\ settings.ok
    /\ settings.val.mailchimp_api_key # ""
    /\ settings.val.mailchimp_audience_id = ""
    /\ response.st = "ok"
    /\ store_before.kind = "json"

\* C12: when some campaign matched the newsletter type and every matching
\* campaign ended with zero ad-clicks, generate_report returns success=false with
\* a message naming the newsletter type; the progress history ends with a
\* ProcessingCampaigns update and holds no FinalizingReport, SavingReport or
\* Complete update; nothing is persisted and no report-generated event is emitted
C12_EmptyResult ==
    (/\ pc = "done"
     /\ Len(filtered_campaigns) > 0
     /\ index = Len(filtered_campaigns)
     /\ report_data = <<>>)
    => /\ response.st = "ok" /\ ~response.success
       /\ Contains(response.message, request.newsletter_type)
       /\ response.data = JNull
       /\ response.progress_updates[Len(response.progress_updates)].stage
             = "ProcessingCampaigns"
       /\ StagesOf(response.progress_updates)
             \cap {"FinalizingReport", "SavingReport", "Complete"} = {}
       /\ reports_file = store_before
       /\ \A i \in 1..Len(events) : events[i].name # "report-generated"

C12_Witness ==
    /\ pc = "done"
    /\ Len(filtered_campaigns) = 2
    /\ Cardinality(Answered) = 2
    /\ report_data = <<>>
    /\ response.st = "ok"

\* C13: when the campaigns endpoint answers with a non-2xx status,
\* generate_report returns a response with success=false whose message carries
\* the body text and whose progress history is Initializing/0,
\* FetchingCampaigns/10, FetchingCampaigns/20; no click-details request is made
\* and nothing is persisted
C13_ApiHttpError ==
    (/\ pc = "done"
     /\ campaigns_response.kind = "http"
     /\ campaigns_response.status \notin 200..299)
    => /\ response.st = "ok" /\ ~response.success
       /\ Contains(response.message, campaigns_response.body.text)
       /\ response.data = JNull
       /\ response.progress_updates
             = <<ProgressUpdate("Initializing", 0), ProgressUpdate("FetchingCampaigns", 10),
                 ProgressUpdate("FetchingCampaigns", 20)>>
       /\ NoClickRequest
       /\ reports_file = store_before

C13_Witness ==
    /\ pc = "done"
    /\ campaigns_response.kind = "http"
    /\ campaigns_response.status = 401
    /\ response.st = "ok"
    /\ response.message = "Mailchimp API error: API Key Invalid"
    /\ Len(http) = 1

\* the positions of the report-generated and Complete emissions
GeneratedAt == {i \in 1..Len(events) : events[i].name = "report-generated"}
CompleteAt ==
    {i \in 1..Len(events) : /\ events[i].name = "report-progress"
                            /\ events[i].payload.stage = "Complete"}

\* C14: report-generated is emitted only once its SavedReport is the last
\* element of the store, and before Complete/100; a successful generation
\* emits both; when save_report fails the generation returns an error and
\* emits neither report-generated nor Complete
C14_EmitAfterPersist ==
    /\ \A i \in GeneratedAt :
          /\ load_reports(reports_file).ok
          /\ Len(StoredReports) = Len(load_reports(store_before).val) + 1
          /\ PersistedReport = events[i].payload.report
          /\ \A j \in CompleteAt : i < j
    /\ Succeeded => (Cardinality(GeneratedAt) = 1 /\ Cardinality(CompleteAt) = 1)
    /\ (pc = "done" /\ Len(report_data) > 0 /\ reports_file = store_before)
          => /\ response.st = "err"
             /\ GeneratedAt = {}
             /\ CompleteAt = {}
             /\ "Complete" \notin StagesOf(progress_updates)

C14_Witness ==
    /\ Succeeded
    /\ GeneratedAt # {}
    /\ events[Len(events)].payload = ProgressUpdate("Complete", 100)
    /\ store_before.kind = "json"

\* the other case of C14: save_report failed on the write
C14_PersistFailed ==
    /\ pc = "done"
    /\ Len(report_data) > 0
    /\ store_before.kind = "json"
    /\ response = ErrResponse("Failed to write reports")

\* an element the claim says is rejected
BadElement(url) ==
    /\ url # ""
    /\ \/ (StartsWith(url, "http://") \/ StartsWith(url, "https://")) /\ ~UrlParseOk(url)
       \/ /\ ~StartsWith(url, "http://") /\ ~StartsWith(url, "https://")
          /\ (Contains(url, " ") \/ Contains(url, "<") \/ Contains(url, ">"))

\* C15: a request whose tracking-URL list is empty or holds a bad element is
\* rejected with an error before any progress update is emitted, settings are
\* loaded or an HTTP request is issued; any other request, empty-string
\* elements included, gets past the validation
C15_FailFast ==
    pc # "idle" =>
        IF \/ Len(request.tracking_urls) = 0
           \/ \E i \in 1..Len(request.tracking_urls) : BadElement(request.tracking_urls[i])
        THEN /\ pc = "done"
             /\ response.st = "err"
             /\ progress_updates = <<>>
             /\ events = <<>>
             /\ settings = Err("not loaded")
             /\ http = <<>>
             /\ reports_file = store_before
        ELSE /\ Len(events) > 0
             /\ events[1].payload = ProgressUpdate("Initializing", 0)

C15_Witness ==
    /\ pc = "done"
    /\ request.tracking_urls = <<"https://">>
    /\ response.st = "err"
    /\ events = <<>>

\* the accepting case of C15: a list with an empty-string element
C15_EmptyElementAccepted ==
    /\ pc = "done"
    /\ \E i \in 1..Len(request.tracking_urls) : request.tracking_urls[i] = ""
    /\ Succeeded

\* the campaigns request was answered with a JSON document that has a
\* campaigns array, and the generation ended on it
EndedOnCampaigns ==
    /\ pc = "done"
    /\ campaigns_response.kind = "http"
    /\ campaigns_response.status \in 200..299
    /\ campaigns_response.body.json
    /\ Get(campaigns_response.body.doc, "campaigns").t = "arr"

\* C16: when the fetched campaigns array is empty or holds no campaign whose
\* settings.title matches the newsletter type, generate_report ends with an
\* error after the FetchingCampaigns updates and before any FilteringCampaigns
\* update, without a click-details request and without persisting; the
\* generation gets past the validation only with a campaign that matched
C16_CampaignSetRejected ==
    /\ EndedOnCampaigns =>
          LET campaigns == Get(campaigns_response.body.doc, "campaigns").v
          IN  (\A i \in 1..Len(campaigns) :
                   ~TitleMatches(campaigns[i], request.newsletter_type))
              => /\ response.st = "err"
                 /\ progress_updates
                       = <<ProgressUpdate("Initializing", 0),
                           ProgressUpdate("FetchingCampaigns", 10),
                           ProgressUpdate("FetchingCampaigns", 20)>>
                 /\ ProgressOf(events) = progress_updates
                 /\ NoClickRequest
                 /\ reports_file = store_before
    /\ "FilteringCampaigns" \in StagesOf(progress_updates)
          => Len(filtered_campaigns) > 0

C16_Witness ==
    /\ EndedOnCampaigns
    /\ Len(Get(campaigns_response.body.doc, "campaigns").v) = 2
    /\ response.st = "err"
    /\ store_before.kind = "json"

\* the other case of C16: the fetched array is empty
C16_EmptyArray ==
    /\ EndedOnCampaigns
    /\ Get(campaigns_response.body.doc, "campaigns").v = <<>>
    /\ response = ErrResponse("No campaigns found for the specified date range")

\* the text of key after its last '-', for a key that has one
AfterLastDash(key) ==
    LET k == CHOOSE i \in 1..Len(key) :
                 /\ SubSeq(key, i, i) = "-"
                 /\ ~Contains(SubSeq(key, i + 1, Len(key)), "-")
    IN  SubSeq(key, k + 1, Len(key))

\* C17: every request goes to https://<dc>.api.mailchimp.com/3.0 where dc is
\* the text of the credential after its last '-', and us1 when the credential
\* has no '-'
C17_DataCenterTag ==
    \A i \in 1..Len(http) :
        LET key == settings.val.mailchimp_api_key
            tag == IF Contains(key, "-") THEN AfterLastDash(key) ELSE "us1"
        IN  StartsWith(http[i].url, "https://" \o tag \o ".api.mailchimp.com/3.0/")

\* the header line for a selection sel, a function from the metric names to
\* BOOLEAN: Date, then the selected columns in the fixed order
ExpectedHeader(sel) ==
    "Date"
    \o (IF sel["unique_opens"] THEN ",Unique Opens" ELSE "")
    \o (IF sel["total_opens"] THEN ",Total Opens" ELSE "")
    \o (IF sel["total_recipients"] THEN ",Total Recipients" ELSE "")
    \o (IF sel["total_clicks"] THEN ",Total Clicks" ELSE "")
    \o (IF sel["ctr"] THEN ",CTR" ELSE "")
    \o "\n"

\* download_csv was dispatched on a SavedReport of the store
ExportedFromStore ==
    /\ last.op = "download_csv"
    /\ last.arg \in StoredReportValues(reports_file)

\* C18: for every SavedReport of the store, records without a MetricSelection
\* included, download_csv (with settings that load and a file system that
\* lets it write) writes a CSV whose header is Date followed by the columns
\* whose flag is true in the SavedReport's MetricSelection, in the fixed order
C18_HeaderFromSelection ==
    ExportedFromStore =>
        \A os \in OsDirs :
            load_settings(settings_file, os).ok =>
                LET x == download_csv(settings_file, os, last.arg,
                                      local_timestamp(now), "ok")
                IN  /\ Len(x.written) = 1
                    /\ StartsWith(x.written[1].csv,
                                  ExpectedHeader(MetricsDecode(Get(last.arg, "metrics"))))

\* the file name without its timestamp and extension
Stem(file_name) == SubSeq(file_name, 1, Len(file_name) - 19)

FormatError(res) ==
    /\ ~res.ok
    /\ res.err \in {"Invalid report format: missing data field",
                    "Invalid report format: missing metrics"}

\* both commands wrote the same CSV under the same name up to the timestamp,
\* or both failed with the same error
SameExport(d, x) ==
    \/ /\ d.res.ok /\ x.res.ok
       /\ d.written[1].csv = x.written[1].csv
       /\ Stem(d.written[1].file_name) = Stem(x.written[1].file_name)
    \/ /\ ~d.res.ok /\ ~x.res.ok
       /\ d.res.err = x.res.err

\* what the two commands agree on whatever directory each writes to: the
\* error for a report value without data or data.metrics, and the CSV and
\* the file name up to the timestamp when both write
AgreeOnReport(d, x) ==
    /\ (FormatError(d.res) \/ FormatError(x.res)) => d.res = x.res
    /\ (d.written # <<>> /\ x.written # <<>>) =>
           /\ d.written[1].csv = x.written[1].csv
           /\ Stem(d.written[1].file_name) = Stem(x.written[1].file_name)

Exporting == last.op \in {"download_csv", "open_report_in_excel"}

\* C19 as stated: for every report value, with a file system that lets both
\* commands write, download_csv and open_report_in_excel produce the same CSV
\* and the same file name up to the timestamp, or fail with the same error
C19_SameExport ==
    Exporting =>
        \A os \in OsDirs :
            SameExport(download_csv(settings_file, os, last.arg, local_timestamp(1), "ok"),
                       open_report_in_excel(last.arg, local_timestamp(2), "ok"))

\* C19 amended: for every report value, if it has no data member or no
\* data.metrics member both commands fail with the same error; otherwise,
\* whenever both write their file, the CSV is the same and so is the file name
\* up to the timestamp, and with settings that load and a file system that
\* lets them write both succeed.  download_csv alone fails when load_settings
\* fails or the download directory cannot be created
C19_SameCsv ==
    Exporting =>
        LET acted == [res |-> last.res, written |-> last.written]
        IN  /\ last.op = "download_csv" =>
                  \A fs \in {"ok", "nowrite", "nonutf8"} :
                      AgreeOnReport(acted,
                                    open_report_in_excel(last.arg, local_timestamp(2), fs))
            /\ last.op = "open_report_in_excel" =>
                  \A os \in OsDirs, fs \in {"ok", "nodir", "nowrite"} :
                      AgreeOnReport(download_csv(settings_file, os, last.arg,
                                                 local_timestamp(2), fs),
                                    acted)
            /\ \A os \in OsDirs :
                  load_settings(settings_file, os).ok =>
                      SameExport(download_csv(settings_file, os, last.arg,
                                              local_timestamp(1), "ok"),
                                 open_report_in_excel(last.arg, local_timestamp(2), "ok"))

C19_Witness ==
    /\ last.op = "open_report_in_excel"
    /\ last.res.ok
    /\ load_settings(settings_file, "download").ok
    /\ last.written[1].file_name = "NJ_American_Water_HBCB_2023-10-01_2023-10-31_20240201_120001.csv"
    /\ last.written[1].csv
          = "Date,Unique Opens,Total Opens,Total Recipients,Total Clicks,CTR\n"
            \o "2023-12-05,40,50,90,4,10.000000\n"
            \o "N/A,0,0,0,3,33.333333\n"

\* the SavedReports of the tasks in the order in which the tasks completed
CompletionOrder ==
    [k \in 1..Cardinality(Tasks) |->
        tasks[CHOOSE t \in Tasks : tasks[t].finished = k].report]

\* C20: when two generations that ran at once have both succeeded, the store
\* holds what it held before followed by both SavedReports, in the order in
\* which the generations completed
C20_NoLostAppend ==
    (\A t \in Tasks : tasks[t].pc = "done") =>
        /\ load_reports(reports_file).ok
        /\ StoredReports = load_reports(store_before).val \o CompletionOrder

\* the position of the update with this stage and progress among the updates
\* emitted so far, or 0 when it has not been emitted
PositionOf(stage, progress) ==
    LET ups == ProgressOf(events)
        at == {i \in 1..Len(ups) : ups[i] = ProgressUpdate(stage, progress)}
    IN  IF at = {} THEN 0 ELSE CHOOSE i \in at : \A j \in at : i <= j

\* the campaigns request has been sent and has returned
CampaignsReturned == Len(http) >= 1 /\ pc # "await_campaigns"

\* C21 as stated: FetchingCampaigns/10 is emitted before the campaigns request
\* is sent, and FetchingCampaigns/20 only after that request has returned
C21_AroundRequest ==
    Len(http) >= 1 =>
        /\ PositionOf("FetchingCampaigns", 10) \in 1..http[1].emitted
        /\ PositionOf("FetchingCampaigns", 20) \notin 1..http[1].emitted
        /\ CampaignsReturned => PositionOf("FetchingCampaigns", 20) > http[1].emitted

\* C21: the FetchingCampaigns update with progress 10 and the one with
\* progress 20 are both emitted, in this order, before the campaigns request
\* is sent; nothing is emitted between the sending and the return
C21_BothBeforeRequest ==
    Len(http) >= 1 =>
        /\ PositionOf("FetchingCampaigns", 10) \in 1..http[1].emitted
        /\ PositionOf("FetchingCampaigns", 20) \in 1..http[1].emitted
        /\ PositionOf("FetchingCampaigns", 10) < PositionOf("FetchingCampaigns", 20)
        /\ pc = "await_campaigns" => Len(ProgressOf(events)) = http[1].emitted

C21_Witness ==
    /\ CampaignsReturned
    /\ pc = "loop"
    /\ PositionOf("FetchingCampaigns", 20) = 3
    /\ http[1].emitted = 3
    /\ Len(ProgressOf(events)) > 3

\* C22 as stated: a generation rejected for its end date has emitted
\* Initializing/0, FetchingCampaigns/10 and FetchingCampaigns/20 and has made
\* no HTTP request
C22_BothBeforeParse ==
    (pc = "done" /\ response = ErrResponse("Failed to parse end date"))
    => /\ ProgressOf(events) = <<ProgressUpdate("Initializing", 0),
                                 ProgressUpdate("FetchingCampaigns", 10),
                                 ProgressUpdate("FetchingCampaigns", 20)>>
       /\ http = <<>>

\* C22: FetchingCampaigns/10 is emitted before the end date is parsed and
\* FetchingCampaigns/20 after it: a generation rejected for an end date that
\* is not YYYY-MM-DD has emitted Initializing/0 and FetchingCampaigns/10 only,
\* and has made no HTTP request; one whose end date parses has emitted
\* FetchingCampaigns/20 when it sends the campaigns request
C22_TenBeforeParse ==
    /\ (pc = "done" /\ response = ErrResponse("Failed to parse end date"))
       => /\ ProgressOf(events) = <<ProgressUpdate("Initializing", 0),
                                    ProgressUpdate("FetchingCampaigns", 10)>>
          /\ http = <<>>
          /\ ~IsYmd(request.date_range.end_date)
    /\ Len(http) >= 1
       => /\ IsYmd(request.date_range.end_date)
          /\ PositionOf("FetchingCampaigns", 20) = 3

C22_Witness ==
    /\ pc = "done"
    /\ response = ErrResponse("Failed to parse end date")
    /\ request.date_range.end_date = "31/01/2024"
    /\ settings.ok
    /\ Len(events) = 2

\* an answer with a success status whose body is not JSON
Malformed(resp) == resp.kind = "http" /\ resp.status \in 200..299 /\ ~resp.body.json

\* an answer with a status outside 200..299
NonSuccess(resp) == resp.kind = "http" /\ resp.status \notin 200..299

\* the step in which the click-details request of the current campaign returns
\* goes on with the loop and pushes no entry
Swallowed ==
    /\ pc' = "loop"
    /\ index' = index + 1
    /\ report_data' = report_data
    /\ response' = NoResponse
    /\ UNCHANGED <<events, progress_updates, http, filtered_campaigns, reports_file>>

\* C23 as stated: a malformed JSON body in the campaigns response or in a
\* click-details response ends the generation with an error
C23_MalformedFatal ==
    (Malformed(campaigns_response) \/ Malformed(click_response))
    => pc = "done" /\ response.st = "err"

\* C23: a malformed JSON body in the campaigns response is fatal, the
\* generation ends with an error; a malformed JSON body in a click-details
\* response is not, that campaign gets zero ad-clicks and yields no entry,
\* and the loop goes on
C23_ParseErrors ==
    /\ [](Malformed(campaigns_response)
            => /\ pc = "done"
               /\ response = ErrResponse("Failed to parse campaigns response")
               /\ Len(http) = 1
               /\ reports_file = store_before)
    /\ [][(pc = "await_clicks" /\ Malformed(click_response')) => Swallowed]_vars

C23_Witness ==
    /\ Malformed(click_response)
    /\ pc = "loop"
    /\ index = 1
    /\ Len(filtered_campaigns) = 2
    /\ report_data = <<>>

\* C24: a non-2xx answer to a campaign's click-details request does not end
\* the generation: the campaign gets zero ad-clicks and yields no entry, and
\* the loop goes on with the next filtered campaign; when the generation is
\* past the loop every filtered campaign has had its update, in order
C24_ClickErrorSwallowed ==
    /\ [][(pc = "await_clicks" /\ NonSuccess(click_response')) => Swallowed]_vars
    /\ []((pc = "loop" /\ NonSuccess(click_response))
            => /\ index <= Len(filtered_campaigns)
               /\ response = NoResponse)
    /\ []((pc = "done" /\ filtered_campaigns # <<>>)
            => /\ index = Len(filtered_campaigns)
               /\ \A i \in 1..Len(filtered_campaigns) :
                     progress_updates[5 + i]
                        = ProgressUpdate("ProcessingCampaigns",
                                         current_progress(i - 1, Len(filtered_campaigns))))

C24_Witness ==
    /\ NonSuccess(click_response)
    /\ click_response.body.json
    /\ pc = "loop"
    /\ index = 1
    /\ Len(filtered_campaigns) = 2
    /\ ~Skipped(filtered_campaigns[2])
    /\ report_data = <<>>

\* the pairs of a clicked-URL item and a non-empty tracking-URL fragment its
\* url holds
MatchPairs(items, fragments) ==
    {p \in (1..Len(items)) \X (1..Len(fragments)) :
        /\ IsStr(Get(items[p[1]], "url"))
        /\ fragments[p[2]] # ""
        /\ Contains(Get(items[p[1]], "url").v, fragments[p[2]])}

\* the sum of the items' total_clicks over a set of pairs
RECURSIVE ClicksOver(_, _)
ClicksOver(pairs, items) ==
    IF pairs = {} THEN 0
    ELSE LET p == CHOOSE q \in pairs : TRUE
         IN  AsU64Or(Get(items[p[1]], "total_clicks"), 0)
             + ClicksOver(pairs \ {p}, items)

\* the click-details answer carries an array of clicked URLs
HasUrlsClicked(resp) ==
    /\ resp.kind = "http" /\ resp.status \in 200..299 /\ resp.body.json
    /\ Get(resp.body.doc, "urls_clicked").t = "arr"

\* C25: when the click-details answer carries clicked URLs, the campaign's
\* ad-click total is the sum of total_clicks over every pair of an item and a
\* non-empty fragment that is a substring of the item's url: the campaign's
\* entry carries that total, and there is no entry when the total is zero
C25_AdClickSum ==
    [][(pc = "await_clicks" /\ HasUrlsClicked(click_response'))
        => LET items == Get(click_response'.body.doc, "urls_clicked").v
               total == ClicksOver(MatchPairs(items, request.tracking_urls), items)
           IN  IF total = 0 THEN report_data' = report_data
               ELSE /\ Len(report_data') = Len(report_data) + 1
                    /\ SubSeq(report_data', 1, Len(report_data)) = report_data
                    /\ Get(report_data'[Len(report_data')], "total_clicks") = JNum(total)]_vars

C25_Witness ==
    /\ HasUrlsClicked(click_response)
    /\ Len(Get(click_response.body.doc, "urls_clicked").v) = 2
    /\ request.tracking_urls = <<"", "horizonblue.com", "plan">>
    /\ pc = "loop"
    /\ Len(report_data) = 1
    /\ Get(report_data[1], "total_clicks") = JNum(40)

\* the answer to the campaigns request carries a campaigns array
HasCampaigns(resp) ==
    /\ resp.kind = "http" /\ resp.status \in 200..299 /\ resp.body.json
    /\ Get(resp.body.doc, "campaigns").t = "arr"

\* the positions of the fetched campaigns whose title is a string that,
\* lowercased, holds the lowercased keyword, or 'hc' or 'health care' when
\* the lowercased keyword is 'hc'
KeptPositions(fetched, keyword) ==
    {i \in 1..Len(fetched) :
        LET title == Get(Get(fetched[i], "settings"), "title")
        IN  /\ title.t = "str"
            /\ \/ Contains(to_lowercase(title.v), to_lowercase(keyword))
               \/ /\ to_lowercase(keyword) = "hc"
                  /\ \/ Contains(to_lowercase(title.v), "hc")
                     \/ Contains(to_lowercase(title.v), "health care")}

\* C26: the filtered campaigns are the fetched campaigns at the kept
\* positions, in source order; validate_campaign_data rejects the fetched
\* array exactly when no position is kept
C26_FilteredSubsequence ==
    HasCampaigns(campaigns_response) =>
        LET fetched == Get(campaigns_response.body.doc, "campaigns").v
            kept == KeptPositions(fetched, request.newsletter_type)
        IN  /\ validate_campaign_data(fetched, request.newsletter_type).ok <=> kept # {}
            /\ pc = "done" <=> kept = {}
            /\ pc = "done" => response.st = "err" /\ filtered_campaigns = <<>>
            /\ pc # "done" =>
                  /\ pc = "loop"
                  /\ Len(filtered_campaigns) = Cardinality(kept)
                  /\ \A i \in kept :
                        filtered_campaigns[Cardinality({j \in kept : j <= i})] = fetched[i]

C26_Witness ==
    /\ HasCampaigns(campaigns_response)
    /\ pc = "loop"
    /\ to_lowercase(request.newsletter_type) = "hc"
    /\ Len(Get(campaigns_response.body.doc, "campaigns").v) = 2
    /\ KeptPositions(Get(campaigns_response.body.doc, "campaigns").v,
                     request.newsletter_type) = {2}
    /\ Get(Get(filtered_campaigns[1], "settings"), "title") = JStr("hbcb Health Care")

\* C27: the ProcessingCampaigns update of the campaign at 0-based index i of
\* N filtered campaigns carries progress 40 + floor(i * 40 / N); every
\* emitted progress value lies in 0..100, every per-campaign value in 40..79
C27_LinearProgress ==
    LET N == Len(filtered_campaigns)
    IN  /\ \A k \in 1..Len(progress_updates) : progress_updates[k].progress \in 0..100
        /\ \A i \in 0..(N - 1) :
              (Len(progress_updates) >= 6 + i
               /\ progress_updates[6 + i].stage = "ProcessingCampaigns")
              => /\ progress_updates[6 + i].progress = 40 + ((i * 40) \div N)
                 /\ progress_updates[6 + i].progress \in 40..79

\* the positions of the reports whose id is not the given one
OtherIds(reports, id) == {i \in 1..Len(reports) : reports[i].id # id}

\* C28: delete_report(id) removes every stored report with that id and leaves
\* the other stored reports present, unchanged and in their order; without a
\* reports document it does nothing and creates none; when the document
\* cannot be parsed it fails and leaves the document as it was
C28_DeleteFrame ==
    last.op = "delete_report" =>
        /\ last.before.kind = "absent" => last.res.ok /\ reports_file = Absent
        /\ ~load_reports(last.before).ok => ~last.res.ok
        /\ ~last.res.ok => reports_file = last.before
        /\ (last.before.kind = "json" /\ load_reports(last.before).ok /\ last.io_ok)
           => /\ last.res.ok
              /\ load_reports(reports_file).ok
              /\ LET was == load_reports(last.before).val
                     kept == OtherIds(was, last.arg)
                 IN  /\ Len(StoredReports) = Cardinality(kept)
                     /\ \A i \in kept :
                           StoredReports[Cardinality({j \in kept : j <= i})] = was[i]

\* C29: after a save_report(r) that succeeds, load_reports returns the list it
\* returned before with r appended as the last element; the same holds of
\* the save_report a generation makes; a save_report that fails leaves the
\* document as it was
C29_AppendLast ==
    /\ last.op = "save_report" =>
          IF last.res.ok
          THEN /\ load_reports(last.before).ok
               /\ load_reports(reports_file).ok
               /\ StoredReports = load_reports(last.before).val \o <<last.arg>>
          ELSE reports_file = last.before
    /\ Succeeded =>
          /\ load_reports(reports_file).ok
          /\ StoredReports
                = load_reports(store_before).val
                  \o <<new_report(request, response.data, now)>>

C29_Witness ==
    /\ last.op = "save_report"
    /\ last.res.ok
    /\ last.before.kind = "json"
    /\ last.before.doc = <<LegacyReportDoc>>
    /\ Len(StoredReports) = 2
    /\ StoredReports[1].id = "report-0"
    /\ StoredReports[2] = last.arg

\* the terminal outcome a response stands for; a campaigns answer without a
\* campaigns array is counted with the API errors
Outcome(resp) ==
    IF resp.st = "err" THEN "Failed"
    ELSE IF resp.st = "none" THEN "none"
    ELSE IF resp.success THEN "Complete"
    ELSE IF resp.message = "Mailchimp API settings not configured" THEN "RejectedNoConfig"
    ELSE IF \/ StartsWith(resp.message, "Mailchimp API error: ")
            \/ resp.message = "No campaigns found in response" THEN "RejectedAPIError"
    ELSE IF StartsWith(resp.message, "No data found for the specified tracking URLs")
    THEN "RejectedEmptyResult"
    ELSE "other"

\* the requests made so far: the campaigns request first and once, then one
\* click-details request for each filtered campaign the loop has reached and
\* not skipped, in filtered order
RequestsInOrder ==
    LET reached == IF pc = "await_clicks" THEN index + 1 ELSE index
        asked == {i \in 1..reached : ~Skipped(filtered_campaigns[i])}
    IN  /\ Len(http) <= 1 + Len(filtered_campaigns)
        /\ pc \in {"await_campaigns", "loop", "await_clicks"} => Len(http) >= 1
        /\ Len(http) >= 1 =>
              /\ http[1].url = base_url(settings.val.mailchimp_api_key) \o "/campaigns"
              /\ Len(http) = 1 + Cardinality(asked)
              /\ \A i \in asked :
                    http[1 + Cardinality({j \in asked : j <= i})].url
                       = base_url(settings.val.mailchimp_api_key) \o "/reports/"
                         \o Get(filtered_campaigns[i], "id").v \o "/click-details"

\* C30: every generation that has started ends, with one of the five
\* outcomes, and nothing of it runs after that; it makes the campaigns
\* request at most once and at most one click-details request per filtered
\* campaign, in filtered order
C30_Terminates ==
    /\ (pc \notin {"idle", "done"}) ~> (pc = "done")
    /\ [](pc = "done"
            => Outcome(response) \in {"Complete", "RejectedNoConfig", "RejectedAPIError",
                                      "RejectedEmptyResult", "Failed"})
    /\ [](pc # "done" => response = NoResponse)
    /\ [][pc # "done"]_vars
    /\ []RequestsInOrder

C30_Witness ==
    /\ pc = "done"
    /\ Outcome(response) = "Complete"
    /\ Len(filtered_campaigns) = 2
    /\ Len(http) = 3
    /\ Len(report_data) = 1

\* C31: a settings.json that is valid JSON but no Settings document is
\* loaded field by field: the stored value where the field is present with
\* its type, the field's default otherwise
C31_FieldWise ==
    (/\ last.op = "load_settings" /\ last.res.ok
     /\ settings_file.kind = "json" /\ ~SettingsStrictOk(settings_file.doc)) =>
        LET d == settings_file.doc
            s == last.res.val
        IN  /\ s.mailchimp_api_key = AsStrOr(d.mailchimp_api_key, "")
            /\ s.mailchimp_audience_id = AsStrOr(d.mailchimp_audience_id, DefaultAudienceId)
            /\ s.advertisers
                 = IF /\ d.advertisers.t = "arr"
                      /\ \A i \in 1..Len(d.advertisers.v) : IsStr(d.advertisers.v[i])
                   THEN StrItems(d.advertisers.v)
                   ELSE DefaultAdvertisers
            /\ IsStr(d.download_directory) /\ d.download_directory.v # ""
                 => s.download_directory = d.download_directory.v
            /\ ~IsStr(d.download_directory)
                 => \E os \in OsDirs : /\ default_download_dir(os).ok
                                       /\ s.download_directory = default_download_dir(os).val

\* C32: a failed emission changes nothing of a generation.  Every step of
\* generate_report in which app.emit returns Err is, in everything the
\* generation reads or writes, the step in which it returns Ok; the progress
\* history holds every update emitted, delivered or not, in emission order,
\* and is the history the response returns
C32_EmitFailureIgnored ==
    [][/\ \A req \in Requests, os \in OsDirs :
            (GenerateReport(req, os, FALSE) <=> GenerateReport(req, os, TRUE))
       /\ \A resp \in CampaignsResponses :
            (CampaignsResponse(resp, FALSE) <=> CampaignsResponse(resp, TRUE))
       /\ (ProcessCampaign(FALSE) <=> ProcessCampaign(TRUE))
       /\ \A io_ok \in BOOLEAN :
            (Finalize(io_ok, FALSE) <=> Finalize(io_ok, TRUE))
       /\ progress_updates' = ProgressOf(events')
       /\ response'.st = "ok" => response'.progress_updates = progress_updates']_vars

C32_Witness ==
    /\ emit_failed
    /\ Succeeded
    /\ PersistedReport = new_report(request, response.data, now)
    /\ Len(response.progress_updates) = 10

\* a campaign the loop cannot use: its id is no string, its send_time is no
\* string, or its send_time is no RFC-3339 timestamp
Unusable(campaign) ==
    LET id == Get(campaign, "id")
        send_time == Get(campaign, "send_time")
    IN  ~IsStr(id) \/ ~IsStr(send_time) \/ ~IsRfc3339(send_time.v)

\* C33: a filtered campaign the loop cannot use is passed over and the
\* generation goes on to its end: the campaign has its ProcessingCampaigns
\* update, no click-details request is made for it and no entry is built
\* from it, and the final report document lists it among its campaigns
C33_SkippedCampaign ==
    LET N == Len(filtered_campaigns)
        reached == IF pc = "await_clicks" THEN index + 1 ELSE index
        unusable == {i \in 1..reached : Unusable(filtered_campaigns[i])}
        usable == (1..reached) \ unusable
        ups == ProgressOf(events)
        reports == base_url(settings.val.mailchimp_api_key) \o "/reports/"
    IN  N >= 1 =>
          /\ pc = "done" => index = N
          /\ \A i \in unusable :
                /\ Len(ups) >= 5 + i
                /\ ups[5 + i].stage = "ProcessingCampaigns"
          /\ Len(http) = 1 + Cardinality(usable)
          /\ \A k \in 2..Len(http) : \E i \in usable :
                http[k].url = reports \o Get(filtered_campaigns[i], "id").v
                                 \o "/click-details"
          /\ Len(report_data) <= Cardinality(usable)
          /\ \A k \in 1..Len(report_data) : \E i \in usable :
                Get(report_data[k], "send_date")
                   = JStr(formatted_date(Get(filtered_campaigns[i], "send_time").v))
          /\ Succeeded =>
                /\ Get(response.data, "campaigns") = JArr(filtered_campaigns)
                /\ Get(response.data, "report_data") = JArr(report_data)

C33_Witness ==
    /\ Succeeded
    /\ Len(filtered_campaigns) = 2
    /\ IsStr(Get(filtered_campaigns[1], "id"))
    /\ ~IsStr(Get(filtered_campaigns[1], "send_time"))
    /\ Len(report_data) = 1
    /\ Get(response.data, "campaigns").v[1] = filtered_campaigns[1]

\* C34: a generation that has reached the ProcessingCampaigns stage has at
\* least one filtered campaign, the campaign set having passed a validation
\* that counts the campaigns the filter keeps; the progress increment is
\* then 40 / N and never the 0.0 of the empty set
C34_FilteredNonEmpty ==
    LET N == Len(filtered_campaigns)
    IN  /\ (\/ pc \in {"loop", "await_clicks"}
            \/ \E k \in 1..Len(progress_updates) :
                  progress_updates[k].stage = "ProcessingCampaigns")
           => /\ N >= 1
              /\ campaign_progress_increment(N) # F64Zero
        /\ HasCampaigns(campaigns_response) =>
              LET fetched == Get(campaigns_response.body.doc, "campaigns").v
                  kept == FilterCampaigns(fetched, request.newsletter_type)
              IN  /\ validate_campaign_data(fetched, request.newsletter_type).ok
                        <=> Len(kept) >= 1
                  /\ pc = "loop" => filtered_campaigns = kept

C34_Witness ==
    /\ pc = "loop"
    /\ index = 0
    /\ HasCampaigns(campaigns_response)
    /\ Len(Get(campaigns_response.body.doc, "campaigns").v) = 2
    /\ Len(filtered_campaigns) = 1
    /\ request.newsletter_type = "HBCB"
    /\ progress_updates[Len(progress_updates)] = ProgressUpdate("ProcessingCampaigns", 40)

====
